---- MODULE Spec2Model ----
(***************************************************************************)
(* Cover/metadata resolution (lib/gameCover: fetchGameCoverOptions and its *)
(* helpers) and the debounced suggestion driver of components/GameForm.    *)
(*                                                                         *)
(* Text is a sequence of characters, each character a one-element string.  *)
(* An optional JSON field is a sequence of length 0 (missing, null or of   *)
(* the wrong type) or 1 (present).  Scores are held in units of 1/400 and  *)
(* the RAWG user rating in hundredths, so every score is an integer.       *)
(***************************************************************************)
EXTENDS Integers, Sequences, FiniteSets, TLC

\* ------------------------------------------------------------------------
\* Bounds of the model
\* ------------------------------------------------------------------------
MaxResults == 2
MaxLimit == 2
MaxWiki == 2
MaxEffects == 2
MaxNames == 2
MaxText == 3

\* ------------------------------------------------------------------------
\* Program constants
\* ------------------------------------------------------------------------
MinPageSize == 12
DebounceMs == 300
SuggestionLimit == 4
MinQueryLength == 2
MinContainLength == 3
MinYear == 1970
MaxYear == 2030
InitialYear == 2024
AutofillPageSize == 15
CoverLimit == 1

PLATFORMS == <<"PS1", "PS2", "PS3", "PS4", "PS5", "Nintendo", "PC">>

\* ------------------------------------------------------------------------
\* Optional values and small helpers
\* ------------------------------------------------------------------------
None == <<>>
Some(v) == <<v>>
IsSome(o) == Len(o) = 1
Get(o) == o[1]

Min(a, b) == IF a <= b THEN a ELSE b
Max(a, b) == IF a >= b THEN a ELSE b

SeqsUpTo(S, n) == UNION {[1..k -> S] : k \in 0..n}

Range(s) == {s[i] : i \in 1..Len(s)}

\* ------------------------------------------------------------------------
\* Characters
\* ------------------------------------------------------------------------
UpperLetters ==
  <<"A", "B", "C", "D", "E", "F", "G", "H", "I", "J", "K", "L", "M",
    "N", "O", "P", "Q", "R", "S", "T", "U", "V", "W", "X", "Y", "Z">>
LowerLetters ==
  <<"a", "b", "c", "d", "e", "f", "g", "h", "i", "j", "k", "l", "m",
    "n", "o", "p", "q", "r", "s", "t", "u", "v", "w", "x", "y", "z">>
Digits == <<"0", "1", "2", "3", "4", "5", "6", "7", "8", "9">>

\* U+0301, one of the combining marks U+0300..U+036F
CombiningAcute == "U+0301"
IsCombiningMark(c) == c = CombiningAcute

\* \s of a JavaScript regular expression, also what String.prototype.trim strips
IsSpaceChar(c) == c \in {" ", "\t"}

\* \w of a JavaScript regular expression: [A-Za-z0-9_]
WordChars == Range(UpperLetters) \cup Range(LowerLetters) \cup Range(Digits) \cup {"_"}
IsWordChar(c) == c \in WordChars

\* String.prototype.normalize('NFD') on one character
Decompose(c) ==
  CASE c = "é" -> <<"e", CombiningAcute>>
    [] c = "É" -> <<"E", CombiningAcute>>
    [] OTHER -> <<c>>

\* String.prototype.toLowerCase on one character
LowerTable ==
  [c \in Range(UpperLetters) |-> LowerLetters[CHOOSE i \in 1..Len(UpperLetters) : UpperLetters[i] = c]]
LowerOf(c) ==
  IF c \in DOMAIN LowerTable THEN LowerTable[c]
  ELSE IF c = "É" THEN "é" ELSE c

\* ------------------------------------------------------------------------
\* Strings
\* ------------------------------------------------------------------------
RECURSIVE Flatten(_)
Flatten(ss) == IF ss = <<>> THEN <<>> ELSE Head(ss) \o Flatten(Tail(ss))

RECURSIVE TrimStart(_)
TrimStart(s) ==
  IF s # <<>> /\ IsSpaceChar(Head(s)) THEN TrimStart(Tail(s)) ELSE s

RECURSIVE TrimEnd(_)
TrimEnd(s) ==
  IF s # <<>> /\ IsSpaceChar(s[Len(s)]) THEN TrimEnd(SubSeq(s, 1, Len(s) - 1)) ELSE s

\* String.prototype.trim
Trim(s) == TrimEnd(TrimStart(s))

\* String.prototype.includes
Includes(s, t) ==
  \E i \in 0..(Len(s) - Len(t)) : SubSeq(s, i + 1, i + Len(t)) = t

\* String.prototype.startsWith
StartsWith(s, t) == Len(t) <= Len(s) /\ SubSeq(s, 1, Len(t)) = t

\* String.prototype.slice(0, n) for n >= 0
SliceHead(s, n) == SubSeq(s, 1, Min(n, Len(s)))

\* Array.prototype.join(' ')
RECURSIVE JoinSpace(_)
JoinSpace(ss) ==
  IF ss = <<>> THEN <<>>
  ELSE IF Len(ss) = 1 THEN Head(ss)
  ELSE Head(ss) \o <<" ">> \o JoinSpace(Tail(ss))

\* replace(/\s+/g, ' ')
RECURSIVE CollapseSpaces(_)
CollapseSpaces(s) ==
  IF s = <<>> THEN <<>>
  ELSE IF IsSpaceChar(Head(s))
       THEN <<" ">> \o CollapseSpaces(TrimStart(s))
       ELSE <<Head(s)>> \o CollapseSpaces(Tail(s))

DigitValue(c) == (CHOOSE i \in 1..Len(Digits) : Digits[i] = c) - 1

RECURSIVE DecimalValue(_)
DecimalValue(s) ==
  IF s = <<>> THEN 0 ELSE DecimalValue(SubSeq(s, 1, Len(s) - 1)) * 10 + DigitValue(s[Len(s)])

AllDigits(s) == \A i \in 1..Len(s) : s[i] \in Range(Digits)

\* Number(text) on text made of digits, signs, blanks and other characters:
\* blank text is 0, an optionally signed run of digits is its value, the
\* rest is NaN (None)
ParseNumber(text) ==
  LET t == Trim(text)
  IN IF t = <<>> THEN Some(0)
     ELSE IF AllDigits(t) THEN Some(DecimalValue(t))
     ELSE IF Head(t) \in {"+", "-"} /\ Len(t) > 1 /\ AllDigits(Tail(t))
          THEN Some(IF Head(t) = "-" THEN 0 - DecimalValue(Tail(t)) ELSE DecimalValue(Tail(t)))
          ELSE None

NotCombiningMark(c) == ~IsCombiningMark(c)

\* a normalization that collapses and trims before it blanks the punctuation
normalizeTextTrimFirst(value) ==
  LET Blanked(text) ==
        [i \in 1..Len(text) |->
           IF IsWordChar(text[i]) \/ IsSpaceChar(text[i]) THEN text[i] ELSE " "]
      Lowered(text) == [i \in 1..Len(text) |-> LowerOf(text[i])]
  IN Blanked(Trim(CollapseSpaces(Lowered(
       SelectSeq(Flatten([i \in 1..Len(value) |-> Decompose(value[i])]), NotCombiningMark)))))

normalizeText(value) ==
  LET nfd == Flatten([i \in 1..Len(value) |-> Decompose(value[i])])
      stripped == SelectSeq(nfd, NotCombiningMark)
      lowered == [i \in 1..Len(stripped) |-> LowerOf(stripped[i])]
      spaced == [i \in 1..Len(lowered) |->
                   IF IsWordChar(lowered[i]) \/ IsSpaceChar(lowered[i])
                   THEN lowered[i] ELSE " "]
  IN Trim(CollapseSpaces(spaced))

\* ------------------------------------------------------------------------
\* lib/gameCover: candidate filter, scorer, image policy
\* ------------------------------------------------------------------------
blockedTerms ==
  << <<"d", "l", "c">>,
     <<"e", "x", "p", "a", "n", "s", "i", "o", "n">>,
     <<"e", "x", "p", "a", "n", "s", "i", "o", "n", " ", "p", "a", "c", "k">>,
     <<"s", "e", "a", "s", "o", "n", " ", "p", "a", "s", "s">>,
     <<"s", "o", "u", "n", "d", "t", "r", "a", "c", "k">>,
     <<"o", "s", "t">>,
     <<"b", "u", "n", "d", "l", "e">>,
     <<"p", "a", "c", "k">>,
     <<"c", "o", "l", "l", "e", "c", "t", "i", "o", "n">>,
     <<"b", "e", "t", "a">>,
     <<"a", "l", "p", "h", "a">>,
     <<"d", "e", "m", "o">>,
     <<"t", "r", "a", "i", "l", "e", "r">>,
     <<"e", "p", "i", "s", "o", "d", "e">>,
     <<"c", "h", "a", "p", "t", "e", "r">>,
     <<"s", "k", "i", "n">>,
     <<"c", "o", "s", "m", "e", "t", "i", "c">>,
     <<"t", "e", "s", "t", " ", "s", "e", "r", "v", "e", "r">>,
     <<"p", "u", "b", "l", "i", "c", " ", "t", "e", "s", "t">>,
     <<"p", "r", "o", "t", "o", "t", "y", "p", "e">>,
     <<"m", "o", "d">>,
     <<"d", "e", "v", "e", "l", "o", "p", "m", "e", "n", "t">>,
     <<"i", "m", "p", "a", "c", "t">>,
     <<"h", "i", "s", "t", "o", "r", "y", " ", "o", "f">>,
     <<"l", "i", "s", "t", " ", "o", "f">>,
     <<"c", "h", "a", "r", "a", "c", "t", "e", "r", "s", " ", "o", "f">>,
     <<"s", "o", "u", "n", "d", "t", "r", "a", "c", "k", " ", "o", "f">>,
     <<"m", "u", "s", "i", "c", " ", "o", "f">> >>

\* the filter without its test that the name contains the query
isMainGameCandidateOfAnyQuery(gameName, queryTitle) ==
  ~\E i \in 1..Len(blockedTerms) : Includes(normalizeText(gameName), blockedTerms[i])

isMainGameCandidate(gameName, queryTitle) ==
  LET normalizedName == normalizeText(gameName)
      normalizedQuery == normalizeText(queryTitle)
  IN IF \E i \in 1..Len(blockedTerms) : Includes(normalizedName, blockedTerms[i])
     THEN FALSE
     ELSE IF Len(normalizedQuery) >= MinContainLength /\ ~Includes(normalizedName, normalizedQuery)
          THEN FALSE
          ELSE TRUE

\* the keywords of PC under PS5 and those of PS5 under PC
getPlatformKeywordsSwapped(platform) ==
  CASE platform = "PS5" -> << <<"p", "c">>, <<"w", "i", "n", "d", "o", "w", "s">>, <<"l", "i", "n", "u", "x">>, <<"m", "a", "c">> >>
    [] platform = "PC" -> << <<"p", "l", "a", "y", "s", "t", "a", "t", "i", "o", "n", " ", "5">>, <<"p", "s", "5">> >>
    [] OTHER -> <<>>

getPlatformKeywords(platform) ==
  CASE platform = "PS1" -> << <<"p", "l", "a", "y", "s", "t", "a", "t", "i", "o", "n">>, <<"p", "s", "1">> >>
    [] platform = "PS2" -> << <<"p", "l", "a", "y", "s", "t", "a", "t", "i", "o", "n", " ", "2">>, <<"p", "s", "2">> >>
    [] platform = "PS3" -> << <<"p", "l", "a", "y", "s", "t", "a", "t", "i", "o", "n", " ", "3">>, <<"p", "s", "3">> >>
    [] platform = "PS4" -> << <<"p", "l", "a", "y", "s", "t", "a", "t", "i", "o", "n", " ", "4">>, <<"p", "s", "4">> >>
    [] platform = "PS5" -> << <<"p", "l", "a", "y", "s", "t", "a", "t", "i", "o", "n", " ", "5">>, <<"p", "s", "5">> >>
    [] platform = "Nintendo" -> << <<"n", "i", "n", "t", "e", "n", "d", "o">>, <<"s", "w", "i", "t", "c", "h">>, <<"w", "i", "i">>, <<"g", "a", "m", "e", "c", "u", "b", "e">>, <<"3", "d", "s">>, <<"d", "s">> >>
    [] platform = "PC" -> << <<"p", "c">>, <<"w", "i", "n", "d", "o", "w", "s">>, <<"l", "i", "n", "u", "x">>, <<"m", "a", "c">> >>
    [] OTHER -> <<>>

\* (game.platforms ?? []).map((node) => node.platform?.name ?? '')
PlatformNodeNames(game) ==
  LET nodes == IF IsSome(game.platforms) THEN Get(game.platforms) ELSE <<>>
  IN [i \in 1..Len(nodes) |-> IF IsSome(nodes[i]) THEN Get(nodes[i]) ELSE <<>>]

NonEmptyText(name) == name # <<>>

\* value / divisor without the cap
Uncapped(field, perUnit, cap) ==
  IF IsSome(field) THEN Get(field) * perUnit ELSE 0

\* Math.min(value / divisor, cap), in units of 1/400
Capped(field, perUnit, cap) ==
  IF IsSome(field) THEN Min(Get(field) * perUnit, cap) ELSE 0

\* game.background_image of the scorer: (game.background_image ?? '') !== ''
ScoreImagePresent(game) ==
  (IF IsSome(game.background_image) THEN Get(game.background_image) ELSE <<>>) # <<>>

\* a score whose title component is that of a substring match for every match
scoreRawgGameFlatTitle(game, title, platform) ==
  LET keywords == getPlatformKeywords(platform)
      TitleScore(gameTitle, titleQuery) == IF Includes(gameTitle, titleQuery) THEN 18000 ELSE 0
      PlatformScore(platformText) ==
        IF \E i \in 1..Len(keywords) : Includes(platformText, keywords[i]) THEN 10000 ELSE 0
  IN TitleScore(normalizeText(IF IsSome(game.name) THEN Get(game.name) ELSE <<>>),
                normalizeText(title))
     + PlatformScore(normalizeText(JoinSpace(PlatformNodeNames(game))))
     + (IF ScoreImagePresent(game) THEN 4000 ELSE 0)
     + Capped(game.ratings_count, 2, 12000)
     + Capped(game.added, 1, 8000)
     + Capped(game.metacritic, 100, 10000)
     + Capped(game.rating, 8, 4000)

\* the score in units of 1/400: 100 is 40000, 70 is 28000, 45 is 18000, 25 is
\* 10000, 10 is 4000; ratings_count / 200 is ratings_count * 2, added / 400 is
\* added, metacritic / 4 is metacritic * 100 and rating * 2, the rating being
\* held in hundredths, is rating * 8
scoreRawgGame(game, title, platform) ==
  LET titleQuery == normalizeText(title)
      gameTitle == normalizeText(IF IsSome(game.name) THEN Get(game.name) ELSE <<>>)
      platformText == normalizeText(JoinSpace(PlatformNodeNames(game)))
      keywords == getPlatformKeywords(platform)
      titleScore == IF gameTitle = titleQuery THEN 40000
                    ELSE IF StartsWith(gameTitle, titleQuery) THEN 28000
                    ELSE IF Includes(gameTitle, titleQuery) THEN 18000
                    ELSE 0
      platformScore == IF \E i \in 1..Len(keywords) : Includes(platformText, keywords[i])
                       THEN 10000 ELSE 0
      imageScore == IF ScoreImagePresent(game) THEN 4000 ELSE 0
  IN titleScore + platformScore + imageScore
     + Capped(game.ratings_count, 2, 12000)
     + Capped(game.added, 1, 8000)
     + Capped(game.metacritic, 100, 10000)
     + Capped(game.rating, 8, 4000)

pickBestRawgImage(game) ==
  IF IsSome(game.background_image_additional) /\ Get(game.background_image_additional) # <<>>
  THEN Get(game.background_image_additional)
  ELSE IF IsSome(game.background_image) /\ Get(game.background_image) # <<>>
       THEN Get(game.background_image)
       ELSE <<>>

mapWikiOption(option) ==
  [id |-> <<"wiki-", option.id>>,
   title |-> option.title,
   thumbnailUrl |-> option.thumbnailUrl,
   releaseDate |-> <<>>,
   platforms |-> <<>>,
   genres |-> <<>>,
   source |-> "wikipedia"]

\* the type guard without its test of the image
IsRawgGameWithAnyCover(game, title) ==
  /\ IsSome(game.id)
  /\ IsSome(game.name)
  /\ isMainGameCandidate(Get(game.name), title)

\* the type guard of the first filter of fetchRawgCoverOptions
IsRawgGameWithCover(game, title) ==
  /\ IsSome(game.id)
  /\ IsSome(game.name)
  /\ isMainGameCandidate(Get(game.name), title)
  /\ pickBestRawgImage(game) # <<>>

\* an insertion that puts a record before the records of equal score
RECURSIVE InsertBeforeEqual(_, _, _, _)
InsertBeforeEqual(game, sorted, title, platform) ==
  IF sorted = <<>> THEN <<game>>
  ELSE IF scoreRawgGame(Head(sorted), title, platform) > scoreRawgGame(game, title, platform)
       THEN <<Head(sorted)>> \o InsertBeforeEqual(game, Tail(sorted), title, platform)
       ELSE <<game>> \o sorted

\* Array.prototype.sort with (a, b) => score(b) - score(a): stable, descending
RECURSIVE InsertByScore(_, _, _, _)
InsertByScore(game, sorted, title, platform) ==
  IF sorted = <<>> THEN <<game>>
  ELSE IF scoreRawgGame(Head(sorted), title, platform) >= scoreRawgGame(game, title, platform)
       THEN <<Head(sorted)>> \o InsertByScore(game, Tail(sorted), title, platform)
       ELSE <<game>> \o sorted

RECURSIVE SortByScoreFrom(_, _, _, _)
SortByScoreFrom(games, sorted, title, platform) ==
  IF games = <<>> THEN sorted
  ELSE SortByScoreFrom(Tail(games), InsertByScore(Head(games), sorted, title, platform),
                       title, platform)

SortByScore(games, title, platform) == SortByScoreFrom(games, <<>>, title, platform)

ToRawgOption(game) ==
  [id |-> <<"rawg-", Get(game.id)>>,
   title |-> Get(game.name),
   thumbnailUrl |-> pickBestRawgImage(game),
   releaseDate |-> IF IsSome(game.released) THEN Get(game.released) ELSE <<>>,
   platforms |-> SelectSeq(PlatformNodeNames(game), NonEmptyText),
   genres |-> SelectSeq(game.genres, NonEmptyText),
   source |-> "rawg"]

\* options.findIndex((item) => item.thumbnailUrl === option.thumbnailUrl) === index
IsFirstWithThumbnail(options, index) ==
  \A j \in 1..(index - 1) : options[j].thumbnailUrl # options[index].thumbnailUrl

RECURSIVE KeepIndexes(_, _)
KeepIndexes(options, index) ==
  IF index > Len(options) THEN <<>>
  ELSE (IF IsFirstWithThumbnail(options, index) THEN <<options[index]>> ELSE <<>>)
       \o KeepIndexes(options, index + 1)

\* no filter on the thumbnail
KeepEveryThumbnail(options) == options

DedupeByThumbnail(options) == KeepIndexes(options, 1)

\* no slice
SliceNothing(items, limit) == items

\* Array.prototype.slice(0, limit): a negative limit counts from the end
SliceTo(items, limit) ==
  IF limit >= 0 THEN SubSeq(items, 1, Min(limit, Len(items)))
  ELSE SubSeq(items, 1, Max(Len(items) + limit, 0))

\* results.filter(...).sort(...) of fetchRawgCoverOptions
RawgSortedOf(results, title, platform) ==
  LET found == [i \in 1..Len(results) |-> Get(results[i])]
      IsAdmitted(game) == IsRawgGameWithCover(game, title)
  IN SortByScore(SelectSeq(found, IsAdmitted), title, platform)

\* the chain of fetchRawgCoverOptions on the records the search returned
RawgCoverOptionsOf(results, title, platform, limit) ==
  LET Options(sorted) == [i \in 1..Len(sorted) |-> ToRawgOption(sorted[i])]
  IN SliceTo(DedupeByThumbnail(Options(RawgSortedOf(results, title, platform))), limit)

\* ------------------------------------------------------------------------
\* Inputs: titles, credentials, raw records and responses of the two sources
\* ------------------------------------------------------------------------
T_Halo == <<"H", "a", "l", "o">>
T_Ha == <<"H", "a">>
T_Halo2 == <<"H", "a", "l", "o", " ", "2">>
T_HaloDlc == <<"H", "a", "l", "o", ":", " ", "D", "L", "C">>
T_Zelda == <<"Z", "e", "l", "d", "a">>
T_PC == <<"P", "C">>
T_PlayStation5 == <<"P", "l", "a", "y", "S", "t", "a", "t", "i", "o", "n", " ", "5">>
T_Xbox == <<"X", "b", "o", "x">>
T_Date2001 == <<"2", "0", "0", "1", "-", "1", "1", "-", "1", "5">>
T_Date1800 == <<"1", "8", "0", "0", "-", "0", "1", "-", "0", "1">>
T_Shooter == <<"S", "h", "o", "o", "t", "e", "r">>
Url(n) == <<"u", n>>

\* import.meta.env.VITE_RAWG_API_KEY: absent, empty, blank, set, set with blanks
ApiKeys == {None, Some(<<>>), Some(<<" ">>), Some(<<"k">>), Some(<<" ", "k", " ">>)}

RawgGame(id, name, image, additional, released, platforms, ratingsCount) ==
  [id |-> id, name |-> name, background_image |-> image,
   background_image_additional |-> additional, released |-> released,
   platforms |-> platforms, genres |-> <<T_Shooter, <<>> >>,
   rating |-> None, ratings_count |-> ratingsCount, added |-> None,
   metacritic |-> None]

\* G_Halo and G_HaloPs score the same when the platform asked is PS5
G_Halo == RawgGame(Some(1), Some(T_Halo), Some(Url("1")), None, Some(T_Date2001),
                   Some(<<Some(T_Xbox), Some(T_PC)>>), Some(3000))
G_Halo2 == RawgGame(Some(2), Some(T_Halo2), Some(Url("2")), Some(Url("1")), Some(T_Date1800),
                    Some(<<Some(T_PlayStation5), None>>), Some(9000))
G_HaloPs == RawgGame(Some(1), Some(T_Halo), None, Some(Url("3")), None,
                     Some(<<Some(T_PlayStation5)>>), None)
G_Dlc == RawgGame(Some(4), Some(T_HaloDlc), Some(Url("4")), None, None, None, Some(9000))
G_NoImage == RawgGame(Some(5), Some(T_Halo), Some(<<>>), None, None, None, None)
G_NoId == RawgGame(None, Some(T_Halo), Some(Url("6")), None, None, None, None)
G_NoName == RawgGame(Some(7), None, Some(Url("7")), None, None, None, None)
G_Zelda == RawgGame(Some(8), Some(T_Zelda), Some(Url("2")), None, None, None, Some(9000))

\* an element of data.results: a record, or null
RawgItems ==
  {Some(G_Halo), Some(G_Halo2), Some(G_HaloPs), Some(G_Dlc), Some(G_NoImage),
   Some(G_NoId), Some(G_NoName), Some(G_Zelda), None}

\* what fetch and response.json() can produce: a rejected fetch, a status
\* that is not ok, a body that is not JSON, and a JSON body whose results
\* field is missing, is a list, or is something else
RawgResponses ==
  {[kind |-> k, results |-> <<>>] :
      k \in {"network_error", "http_error", "invalid_json", "results_missing", "results_not_a_list"}}
  \cup {[kind |-> "results_list", results |-> r] : r \in SeqsUpTo(RawgItems, MaxResults)}

T_PlayStation4 == <<"P", "l", "a", "y", "S", "t", "a", "t", "i", "o", "n", " ", "4">>
T_PlayStation == <<"P", "l", "a", "y", "S", "t", "a", "t", "i", "o", "n">>
T_GameBoy == <<"G", "a", "m", "e", " ", "B", "o", "y">>
T_Atari2600 == <<"A", "t", "a", "r", "i", " ", "2", "6", "0", "0">>
T_Windows == <<"W", "i", "n", "d", "o", "w", "s">>
T_NintendoSwitch == <<"N", "i", "n", "t", "e", "n", "d", "o", " ", "S", "w", "i", "t", "c", "h">>
T_Date1970 == <<"1", "9", "7", "0", "-", "0", "1", "-", "0", "1">>
T_Date2030 == <<"2", "0", "3", "0", "-", "1", "2", "-", "3", "1">>
T_Date1969 == <<"1", "9", "6", "9", "-", "1", "2", "-", "3", "1">>
T_Date2031 == <<"2", "0", "3", "1", "-", "0", "1", "-", "0", "1">>
T_DateTba == <<"T", "B", "A">>

\* records of a search for "Halo" that differ in platform names and date
A_PcFirst == RawgGame(Some(11), Some(T_Halo), Some(Url("a1")), None, Some(T_Date2030),
                      Some(<<Some(T_PC), Some(T_PlayStation5)>>), Some(1000))
A_Ps4First == RawgGame(Some(12), Some(T_Halo), Some(Url("a2")), None, Some(T_Date1970),
                       Some(<<Some(T_PlayStation4), Some(T_PlayStation5)>>), Some(1000))
A_GameBoy == RawgGame(Some(13), Some(T_Halo), Some(Url("a3")), None, Some(T_Date1969),
                      Some(<<Some(T_GameBoy)>>), Some(1000))
A_Atari == RawgGame(Some(14), Some(T_Halo), Some(Url("a4")), None, Some(T_Date2031),
                    Some(<<Some(T_Atari2600)>>), Some(1000))
A_NoPlatforms == RawgGame(Some(15), Some(T_Halo), Some(Url("a5")), None, Some(<<>>), None, Some(1000))
A_Tba == RawgGame(Some(16), Some(T_Halo2), Some(Url("a6")), None, Some(T_DateTba),
                  Some(<<None, Some(T_Windows)>>), None)
A_NoDate == RawgGame(Some(17), Some(T_Halo), Some(Url("a7")), None, None,
                     Some(<<Some(T_NintendoSwitch)>>), None)

AutofillItems ==
  {Some(A_PcFirst), Some(A_Ps4First), Some(A_GameBoy), Some(A_Atari), Some(A_NoPlatforms),
   Some(A_Tba), Some(A_NoDate), Some(G_Halo), Some(G_Dlc)}

\* what the search of fetchGameAutofill can settle with
AutofillResponses ==
  {[kind |-> k, results |-> <<>>] :
      k \in {"network_error", "http_error", "invalid_json", "results_missing", "results_not_a_list"}}
  \cup {[kind |-> "results_list", results |-> r] : r \in SeqsUpTo(AutofillItems, MaxResults)}

\* fallbackYear, inside and outside the window of valid years
FallbackYears == {InitialYear, 1960}

\* what the request of fetchWikipediaCover can settle with: a rejected fetch,
\* a status that is not ok, a body that is not JSON, a body without
\* query.pages, a first page without thumbnail, a first page with one
WikiCoverResponses ==
  {[kind |-> k, source |-> <<>>] :
      k \in {"network_error", "http_error", "invalid_json", "no_pages", "no_thumbnail"}}
  \cup {[kind |-> "thumbnail", source |-> Url("w9")]}

QueryTitles == {T_Halo, T_Ha}
QueryPlatforms == {"PC", "PS5"}
QueryLimits == (0 - 1)..MaxLimit

W_Halo == [id |-> 7, title |-> T_Halo, thumbnailUrl |-> Url("w1")]
W_Halo2 == [id |-> 8, title |-> T_Halo2, thumbnailUrl |-> Url("w2")]
W_HaloCopy == [id |-> 9, title |-> T_Halo, thumbnailUrl |-> Url("w1")]
WikiItems == {W_Halo, W_Halo2, W_HaloCopy}

NoDuplicateThumbnail(options) ==
  \A i, j \in 1..Len(options) : options[i].thumbnailUrl = options[j].thumbnailUrl => i = j

\* the result of fetchWikipediaCoverOptions(title, platform, limit): candidates
\* with a thumbnail, deduplicated by thumbnail and truncated to limit; what it
\* keeps under a negative limit is not stated, so any length is allowed there
WikiCoverOptionLists(limit) ==
  {w \in SeqsUpTo(WikiItems, MaxWiki) : (limit < 0 \/ Len(w) <= limit) /\ NoDuplicateThumbnail(w)}

\* ------------------------------------------------------------------------
\* State of one call of fetchGameCoverOptions
\* ------------------------------------------------------------------------
VARIABLES
  apiKey,        \* import.meta.env.VITE_RAWG_API_KEY
  pc,            \* where the call stands: "idle", "rawg", "wiki", "done", "raised"
  rq,            \* its arguments
  requests,      \* the network requests issued by the call, in order
  rawgResponse,  \* what the RAWG request settled with, None before
  wikiResponse,  \* what fetchWikipediaCoverOptions returned, None before
  rawgOptions,   \* what fetchRawgCoverOptions returned
  result         \* what fetchGameCoverOptions returned

resolveVars == <<pc, rq, requests, rawgResponse, wikiResponse, rawgOptions, result>>

\* ------------------------------------------------------------------------
\* components/GameForm: state
\* ------------------------------------------------------------------------
VARIABLES
  mounted,                   \* "initial" (rendered, effects not yet run), "mounted", "unmounted"
  editingGame,               \* the prop: None or the record being edited
  formData,                  \* the draft record
  titleQuery,
  suggestions,
  isLoadingSuggestions,
  selectedSuggestionId,
  showSuggestions,
  lockedSuggestionQueryRef,  \* None is null
  effects,                   \* the runs of the debounce effect that set a timer, oldest first
  currentEffect,             \* the run whose cleanup is registered, 0 when the last run set none
  pickHistory                \* history: the last pick of a suggestion and what followed it

formVars ==
  <<mounted, editingGame, formData, titleQuery, suggestions, isLoadingSuggestions,
    selectedSuggestionId, showSuggestions, lockedSuggestionQueryRef, effects,
    currentEffect, pickHistory>>

\* ------------------------------------------------------------------------
\* State of one call of fetchGameCover or fetchGameAutofill, and of one
\* application of a pure function
\* ------------------------------------------------------------------------
VARIABLES
  coverCall,     \* fetchGameCover: stage, arguments, the Wikipedia response, the result
  autofillCall,  \* fetchGameAutofill: stage, arguments, request, response, the result
  probe          \* the function applied last, its arguments and its value

entryVars == <<coverCall, autofillCall>>

\* ------------------------------------------------------------------------
\* components/GameManager and components/GameList: state
\* ------------------------------------------------------------------------
VARIABLES
  games,              \* the collection, newest first
  isFormOpen,
  pendingDeleteGame,  \* GameList: the record of the open confirmation, None is null
  pendingSubmit,      \* the call of handleCreateGame or handleUpdateGame that awaits a source
  nextId              \* the number crypto.randomUUID() is told apart by

managerVars == <<games, isFormOpen, pendingDeleteGame, pendingSubmit, nextId>>

VARIABLES
  sourceAnswer   \* None, or the one response of the primary source to every search of a
                 \* title, with what fetchGameCoverOptions makes of it under each platform

vars == <<apiKey, resolveVars, formVars, entryVars, probe, managerVars, sourceAnswer>>

\* ------------------------------------------------------------------------
\* lib/gameCover: the primary adapter and the orchestrator
\* ------------------------------------------------------------------------
\* the key as configured, without trim()
getRawgApiKeyUntrimmed == IF IsSome(apiKey) THEN Get(apiKey) ELSE <<>>

getRawgApiKey == IF IsSome(apiKey) THEN Trim(Get(apiKey)) ELSE <<>>

\* fetchRawgSearchResults after the response: data.results ?? [], and []
\* from the catch block and from a response that is not ok
SearchResultsOf(response) ==
  CASE response.kind \in {"network_error", "http_error", "invalid_json", "results_missing"} ->
         [isList |-> TRUE, items |-> <<>>]
    [] response.kind = "results_list" -> [isList |-> TRUE, items |-> response.results]
    [] OTHER -> [isList |-> FALSE, items |-> <<>>]

\* results.filter(...) raises a TypeError when results is no array, and its
\* callback raises one on game.id when an element is null
RawgPipelineRaises(found) ==
  \/ ~found.isList
  \/ \E i \in 1..Len(found.items) : ~IsSome(found.items[i])

\* the outcome of fetchRawgCoverOptions on what the search returned
RawgCoverOptionsOutcome(found, title, platform, limit) ==
  IF RawgPipelineRaises(found)
  THEN [raised |-> TRUE, options |-> <<>>]
  ELSE [raised |-> FALSE, options |-> RawgCoverOptionsOf(found.items, title, platform, limit)]

\* rawgOptions.length > 0 alone
ReturnsOnlyFoundOptions(options) == Len(options) > 0

\* rawgOptions.length > 0 || getRawgApiKey() !== ''
ReturnsRawgOptions(options) == Len(options) > 0 \/ getRawgApiKey # <<>>

RawgRequest(title, limit) ==
  [source |-> "rawg", search |-> title, page_size |-> Max(limit * 3, MinPageSize)]

WikiRequest(title, platform, limit) ==
  [source |-> "wikipedia", search |-> title, platform |-> platform, limit |-> limit]

ResolveIdle ==
  /\ pc = "idle"
  /\ rq = [title |-> <<>>, platform |-> "PS5", limit |-> 0]
  /\ requests = <<>>
  /\ rawgResponse = None
  /\ wikiResponse = None
  /\ rawgOptions = <<>>
  /\ result = <<>>

\* fetchGameCoverOptions(title, platform, limit) up to its first request:
\* without a credential fetchRawgSearchResults returns [] at once, and the
\* first filter, the sort and the map of fetchRawgCoverOptions leave [] as it is
StartCoverOptions(title, platform, limit) ==
  /\ rq' = [title |-> title, platform |-> platform, limit |-> limit]
  /\ LET empty == [raised |-> FALSE, options |-> SliceTo(DedupeByThumbnail(<<>>), limit)]
     IN IF getRawgApiKey = <<>>
        THEN /\ rawgOptions' = empty.options
             /\ IF ReturnsRawgOptions(empty.options)
                THEN /\ pc' = "done"
                     /\ result' = empty.options
                     /\ requests' = <<>>
                ELSE /\ pc' = "wiki"
                     /\ result' = <<>>
                     /\ requests' = <<WikiRequest(title, platform, limit)>>
        ELSE /\ pc' = "rawg"
             /\ requests' = <<RawgRequest(title, limit)>>
             /\ UNCHANGED <<rawgOptions, result>>
  /\ UNCHANGED <<rawgResponse, wikiResponse>>

CallCoverOptions(title, platform, limit) ==
  /\ pc = "idle"
  /\ StartCoverOptions(title, platform, limit)
  /\ UNCHANGED <<apiKey, formVars, entryVars, probe, managerVars, sourceAnswer>>

\* the RAWG request settles: the rest of fetchRawgSearchResults and of
\* fetchRawgCoverOptions, then the choice of fetchGameCoverOptions
RawgSettles(response) ==
  /\ pc = "rawg"
  /\ rawgResponse' = Some(response)
  /\ LET outcome == RawgCoverOptionsOutcome(SearchResultsOf(response), rq.title, rq.platform, rq.limit)
     IN IF outcome.raised
        THEN /\ pc' = "raised"
             /\ UNCHANGED <<rawgOptions, result, requests>>
        ELSE /\ rawgOptions' = outcome.options
             /\ IF ReturnsRawgOptions(outcome.options)
                THEN /\ pc' = "done"
                     /\ result' = outcome.options
                     /\ UNCHANGED requests
                ELSE /\ pc' = "wiki"
                     /\ requests' = Append(requests, WikiRequest(rq.title, rq.platform, rq.limit))
                     /\ UNCHANGED result
  /\ UNCHANGED <<apiKey, rq, wikiResponse, formVars, entryVars, probe, managerVars, sourceAnswer>>

\* fetchWikipediaCoverOptions settles: wikiOptions.map(mapWikiOption)
WikiSettles(wikiOptions) ==
  /\ pc = "wiki"
  /\ pc' = "done"
  /\ wikiResponse' = Some(wikiOptions)
  /\ result' = [i \in 1..Len(wikiOptions) |-> mapWikiOption(wikiOptions[i])]
  /\ UNCHANGED <<apiKey, rq, requests, rawgResponse, rawgOptions, formVars, entryVars, probe, managerVars, sourceAnswer>>

\* the caller is free to call again
CallReturns ==
  /\ pc \in {"done", "raised"}
  /\ pc' = "idle"
  /\ rq' = [title |-> <<>>, platform |-> "PS5", limit |-> 0]
  /\ requests' = <<>>
  /\ rawgResponse' = None
  /\ wikiResponse' = None
  /\ rawgOptions' = <<>>
  /\ result' = <<>>
  /\ UNCHANGED <<apiKey, formVars, entryVars, probe, managerVars, sourceAnswer>>

\* ------------------------------------------------------------------------
\* lib/gameCover: the platform and the year of a record
\* ------------------------------------------------------------------------
\* the ordered tests of mapRawgPlatformName: platform, then its keywords
rawgPlatformRules ==
  << [platform |-> "PS5", keywords |-> << <<"p", "l", "a", "y", "s", "t", "a", "t", "i", "o", "n", " ", "5">>, <<"p", "s", "5">> >>],
     [platform |-> "PS4", keywords |-> << <<"p", "l", "a", "y", "s", "t", "a", "t", "i", "o", "n", " ", "4">>, <<"p", "s", "4">> >>],
     [platform |-> "PS3", keywords |-> << <<"p", "l", "a", "y", "s", "t", "a", "t", "i", "o", "n", " ", "3">>, <<"p", "s", "3">> >>],
     [platform |-> "PS2", keywords |-> << <<"p", "l", "a", "y", "s", "t", "a", "t", "i", "o", "n", " ", "2">>, <<"p", "s", "2">> >>],
     [platform |-> "PS1", keywords |-> << <<"p", "l", "a", "y", "s", "t", "a", "t", "i", "o", "n">>, <<"p", "s", "1">> >>],
     [platform |-> "Nintendo", keywords |-> << <<"n", "i", "n", "t", "e", "n", "d", "o">>, <<"s", "w", "i", "t", "c", "h">>, <<"w", "i", "i">>, <<"g", "a", "m", "e", "c", "u", "b", "e">>, <<"g", "a", "m", "e", " ", "b", "o", "y">>, <<"3", "d", "s">>, <<"d", "s">> >>],
     [platform |-> "PC", keywords |-> << <<"p", "c">>, <<"w", "i", "n", "d", "o", "w", "s">>, <<"l", "i", "n", "u", "x">>, <<"m", "a", "c">> >>] >>

mapRawgPlatformName(rawgPlatformName) ==
  LET Matches(value, rule) == \E k \in 1..Len(rule.keywords) : Includes(value, rule.keywords[k])
      FirstHit(value) ==
        IF \A r \in 1..Len(rawgPlatformRules) : ~Matches(value, rawgPlatformRules[r])
        THEN None
        ELSE Some(rawgPlatformRules[CHOOSE r \in 1..Len(rawgPlatformRules) :
                                      /\ Matches(value, rawgPlatformRules[r])
                                      /\ \A q \in 1..(r - 1) : ~Matches(value, rawgPlatformRules[q])].platform)
  IN FirstHit(normalizeText(rawgPlatformName))

\* the platform of the first name that maps to one; platformNodes holds
\* node.platform?.name of each node, None when it is missing
inferPlatformFromRawg(platformNodes) ==
  LET names == [i \in 1..Len(platformNodes) |->
                  IF IsSome(platformNodes[i]) THEN Get(platformNodes[i]) ELSE <<>>]
      FirstMapped(mappedPlatforms) ==
        IF \A i \in 1..Len(mappedPlatforms) : ~IsSome(mappedPlatforms[i]) THEN None
        ELSE mappedPlatforms[CHOOSE i \in 1..Len(mappedPlatforms) :
                               /\ IsSome(mappedPlatforms[i])
                               /\ \A j \in 1..(i - 1) : ~IsSome(mappedPlatforms[j])]
      MappedOf(platformNames) ==
        FirstMapped([i \in 1..Len(platformNames) |-> mapRawgPlatformName(platformNames[i])])
  IN MappedOf(SelectSeq(names, NonEmptyText))

\* the year of a release date, None (null) when there is no valid one
parseReleaseYearUnchecked(released) ==
  IF ~IsSome(released) THEN None
  ELSE ParseNumber(SliceHead(Get(released), 4))

parseReleaseYear(released) ==
  IF ~IsSome(released) THEN None
  ELSE LET parsedYear == ParseNumber(SliceHead(Get(released), 4))
       IN IF ~IsSome(parsedYear) \/ Get(parsedYear) < MinYear \/ Get(parsedYear) > MaxYear
          THEN None
          ELSE parsedYear

\* ------------------------------------------------------------------------
\* lib/gameCover: fetchGameCover and fetchGameAutofill
\* ------------------------------------------------------------------------
\* fetchWikipediaCover after its request settled
WikiCoverOf(response) == IF response.kind = "thumbnail" THEN response.source ELSE <<>>

\* buildSearchQuery(title, platform), gsrlimit 1
WikiCoverRequest(title, platform) ==
  [source |-> "wikipedia", gsrsearch |-> <<title, platform, "video game cover">>, gsrlimit |-> 1]

RawgSearchRequest(title, pageSize) ==
  [source |-> "rawg", search |-> title, page_size |-> pageSize]

\* results.filter(...).sort(...) of fetchGameAutofill: the filter takes the
\* title, the sort takes titleQuery
AutofillSortedOf(results, title, fallbackPlatform) ==
  LET found == [i \in 1..Len(results) |-> Get(results[i])]
      IsAdmitted(game) == IsRawgGameWithCover(game, title)
  IN SortByScore(SelectSeq(found, IsAdmitted), normalizeText(title), fallbackPlatform)

\* results.filter(...).sort(...)[0] of fetchGameAutofill, None when undefined
AutofillBestResult(results, title, fallbackPlatform) ==
  LET First(sorted) == IF sorted = <<>> THEN None ELSE Some(sorted[1])
  IN First(AutofillSortedOf(results, title, fallbackPlatform))

\* the platform of the result: inferredPlatform ?? fallbackPlatform
AutofillPlatformOf(bestResult, fallbackPlatform) ==
  LET OrFallback(inferredPlatform) ==
        IF IsSome(inferredPlatform) THEN Get(inferredPlatform) ELSE fallbackPlatform
  IN OrFallback(inferPlatformFromRawg(IF IsSome(bestResult.platforms)
                                      THEN Get(bestResult.platforms) ELSE <<>>))

\* the value returned for a best result
AutofillResultOf(bestResult, fallbackPlatform, fallbackYear) ==
  LET inferredYear == parseReleaseYear(bestResult.released)
  IN [title |-> Get(bestResult.name),
      platform |-> AutofillPlatformOf(bestResult, fallbackPlatform),
      year |-> IF IsSome(inferredYear) THEN Get(inferredYear) ELSE fallbackYear,
      coverUrl |-> pickBestRawgImage(bestResult)]

CoverIdle ==
  [stage |-> "idle", title |-> <<>>, platform |-> "PS5", wikiCover |-> None, result |-> <<>>]

AutofillIdle ==
  [stage |-> "idle", title |-> <<>>, fallbackPlatform |-> "PS5", fallbackYear |-> 0,
   request |-> None, response |-> None, result |-> None]

EntryIdle == coverCall = CoverIdle /\ autofillCall = AutofillIdle

ProbeIdle == [fn |-> "none"]

\* fetchGameCover(title, platform) up to the first request of
\* fetchGameCoverOptions(title, platform, 1)
StartGameCover(title, platform) ==
  /\ StartCoverOptions(title, platform, CoverLimit)
  /\ coverCall' = [stage |-> "options", title |-> title, platform |-> platform,
                   wikiCover |-> None, result |-> <<>>]

CallGameCover(title, platform) ==
  /\ EntryIdle
  /\ pc = "idle"
  /\ StartGameCover(title, platform)
  /\ UNCHANGED <<apiKey, autofillCall, formVars, probe, managerVars, sourceAnswer>>

\* a cover taken from the options alone
CoverWithoutLookup ==
  /\ coverCall' = [coverCall EXCEPT !.stage = "done",
                                    !.result = IF Len(result) > 0 THEN result[1].thumbnailUrl
                                               ELSE <<>>]
  /\ UNCHANGED requests

\* fetchGameCover after fetchGameCoverOptions returned
CoverAfterOptions ==
  IF Len(result) > 0
  THEN /\ coverCall' = [coverCall EXCEPT !.stage = "done", !.result = result[1].thumbnailUrl]
       /\ UNCHANGED requests
  ELSE /\ coverCall' = [coverCall EXCEPT !.stage = "wikipedia"]
       /\ requests' = Append(requests, WikiCoverRequest(coverCall.title, coverCall.platform))

\* fetchGameCoverOptions settled: a rejection rejects fetchGameCover as well
CoverOptionsSettle ==
  /\ coverCall.stage = "options"
  /\ pc \in {"done", "raised"}
  /\ IF pc = "raised"
     THEN /\ coverCall' = [coverCall EXCEPT !.stage = "raised"]
          /\ UNCHANGED requests
     ELSE CoverAfterOptions
  /\ UNCHANGED <<apiKey, pc, rq, rawgResponse, wikiResponse, rawgOptions, result, autofillCall,
                 formVars, probe, managerVars, sourceAnswer>>

\* the request of fetchWikipediaCover settles
WikiCoverSettles(response) ==
  /\ coverCall.stage = "wikipedia"
  /\ coverCall' = [coverCall EXCEPT !.stage = "done", !.wikiCover = Some(response),
                                    !.result = WikiCoverOf(response)]
  /\ UNCHANGED <<apiKey, resolveVars, autofillCall, formVars, probe, managerVars, sourceAnswer>>

\* fetchGameAutofill(title, fallbackPlatform, fallbackYear) up to its first
\* request: without a credential the search returns [] at once, no record
\* is best and fetchGameCover is called
CallAutofill(title, fallbackPlatform, fallbackYear) ==
  /\ EntryIdle
  /\ pc = "idle"
  /\ IF getRawgApiKey = <<>>
     THEN /\ autofillCall' = [stage |-> "cover", title |-> title,
                              fallbackPlatform |-> fallbackPlatform,
                              fallbackYear |-> fallbackYear, request |-> None,
                              response |-> None, result |-> None]
          /\ StartGameCover(title, fallbackPlatform)
     ELSE /\ autofillCall' = [stage |-> "rawg", title |-> title,
                              fallbackPlatform |-> fallbackPlatform,
                              fallbackYear |-> fallbackYear,
                              request |-> Some(RawgSearchRequest(title, AutofillPageSize)),
                              response |-> None, result |-> None]
          /\ UNCHANGED <<resolveVars, coverCall>>
  /\ UNCHANGED <<apiKey, formVars, probe, managerVars, sourceAnswer>>

\* fetchGameAutofill on what its search returned: the filter raises, a best
\* result is returned, or no record is best
AutofillOutcome(found, title, fallbackPlatform, fallbackYear) ==
  IF RawgPipelineRaises(found) THEN [kind |-> "raised", result |-> None]
  ELSE LET Returned(bestResult) ==
             IF IsSome(bestResult)
             THEN [kind |-> "best",
                   result |-> Some(AutofillResultOf(Get(bestResult), fallbackPlatform, fallbackYear))]
             ELSE [kind |-> "none", result |-> None]
       IN Returned(AutofillBestResult(found.items, title, fallbackPlatform))

\* the search of fetchGameAutofill settles
AutofillRawgSettles(response) ==
  /\ autofillCall.stage = "rawg"
  /\ \E outcome \in {AutofillOutcome(SearchResultsOf(response), autofillCall.title,
                                      autofillCall.fallbackPlatform, autofillCall.fallbackYear)} :
        IF outcome.kind = "none"
        THEN /\ autofillCall' = [autofillCall EXCEPT !.stage = "cover", !.response = Some(response)]
             /\ StartGameCover(autofillCall.title, autofillCall.fallbackPlatform)
        ELSE /\ autofillCall' = [autofillCall EXCEPT
                                   !.stage = IF outcome.kind = "raised" THEN "raised" ELSE "done",
                                   !.response = Some(response),
                                   !.result = outcome.result]
             /\ UNCHANGED <<resolveVars, coverCall>>
  /\ UNCHANGED <<apiKey, formVars, probe, managerVars, sourceAnswer>>

\* a fallback value that drops the cover
AutofillFallbackWithoutCover(title, fallbackPlatform, fallbackYear, fallbackCover) ==
  [title |-> title, platform |-> fallbackPlatform, year |-> fallbackYear, coverUrl |-> <<>>]

\* the value returned when no record is best
AutofillFallbackOf(title, fallbackPlatform, fallbackYear, fallbackCover) ==
  [title |-> title, platform |-> fallbackPlatform, year |-> fallbackYear,
   coverUrl |-> fallbackCover]

\* fetchGameCover settled inside fetchGameAutofill
AutofillCoverSettles ==
  /\ autofillCall.stage = "cover"
  /\ coverCall.stage \in {"done", "raised"}
  /\ autofillCall' =
       IF coverCall.stage = "raised"
       THEN [autofillCall EXCEPT !.stage = "raised"]
       ELSE [autofillCall EXCEPT !.stage = "done",
                                 !.result = Some(AutofillFallbackOf(autofillCall.title,
                                                   autofillCall.fallbackPlatform,
                                                   autofillCall.fallbackYear,
                                                   coverCall.result))]
  /\ UNCHANGED <<apiKey, resolveVars, coverCall, formVars, probe, managerVars, sourceAnswer>>

\* the outermost call settled and the caller is free to call again
EntryReturns ==
  /\ \/ autofillCall.stage \in {"done", "raised"}
     \/ autofillCall.stage = "idle" /\ coverCall.stage \in {"done", "raised"}
  /\ coverCall' = CoverIdle
  /\ autofillCall' = AutofillIdle
  /\ pc' = "idle"
  /\ rq' = [title |-> <<>>, platform |-> "PS5", limit |-> 0]
  /\ requests' = <<>>
  /\ rawgResponse' = None
  /\ wikiResponse' = None
  /\ rawgOptions' = <<>>
  /\ result' = <<>>
  /\ UNCHANGED <<apiKey, formVars, probe, managerVars, sourceAnswer>>

\* ------------------------------------------------------------------------
\* components/GameForm: helpers
\* ------------------------------------------------------------------------
\* the ordered rules of inferPlatformFromNames: platform, then its keywords
formPlatformRules ==
  << [platform |-> "PS5", keywords |-> << <<"p", "l", "a", "y", "s", "t", "a", "t", "i", "o", "n", " ", "5">>, <<"p", "s", "5">> >>],
     [platform |-> "PS4", keywords |-> << <<"p", "l", "a", "y", "s", "t", "a", "t", "i", "o", "n", " ", "4">>, <<"p", "s", "4">> >>],
     [platform |-> "PS3", keywords |-> << <<"p", "l", "a", "y", "s", "t", "a", "t", "i", "o", "n", " ", "3">>, <<"p", "s", "3">> >>],
     [platform |-> "PS2", keywords |-> << <<"p", "l", "a", "y", "s", "t", "a", "t", "i", "o", "n", " ", "2">>, <<"p", "s", "2">> >>],
     [platform |-> "PS1", keywords |-> << <<"p", "l", "a", "y", "s", "t", "a", "t", "i", "o", "n">>, <<"p", "s", "1">> >>],
     [platform |-> "Nintendo", keywords |-> << <<"n", "i", "n", "t", "e", "n", "d", "o">>, <<"s", "w", "i", "t", "c", "h">>, <<"w", "i", "i">>, <<"g", "a", "m", "e", "c", "u", "b", "e">>, <<"3", "d", "s">>, <<"d", "s">> >>],
     [platform |-> "PC", keywords |-> << <<"p", "c">>, <<"w", "i", "n", "d", "o", "w", "s">>, <<"l", "i", "n", "u", "x">>, <<"m", "a", "c">> >>] >>

inferPlatformFromNames(platformNames) ==
  LET Normalized(joined) == [i \in 1..Len(joined) |-> LowerOf(joined[i])]
      Matches(normalized, rule) ==
        \E k \in 1..Len(rule.keywords) : Includes(normalized, rule.keywords[k])
      FirstOf(hits) ==
        IF hits = {} THEN None
        ELSE Some(formPlatformRules[CHOOSE r \in hits : \A q \in hits : r <= q].platform)
  IN CHOOSE inferred \in
       {FirstOf({r \in 1..Len(formPlatformRules) : Matches(normalized, formPlatformRules[r])}) :
          normalized \in {Normalized(joined) : joined \in {JoinSpace(platformNames)}}} : TRUE

INITIAL_FORM ==
  [title |-> <<>>, platform |-> "PS5", year |-> InitialYear, completed |-> FALSE,
   coverUrl |-> <<>>, rating |-> 0]

\* applySuggestion spreading INITIAL_FORM in place of prev
applySuggestionOnInitial(prev, option) ==
  LET releaseYear == ParseNumber(SliceHead(option.releaseDate, 4))
      hasValidYear == IsSome(releaseYear) /\ Get(releaseYear) >= MinYear /\ Get(releaseYear) <= MaxYear
      inferredPlatform == inferPlatformFromNames(option.platforms)
  IN [INITIAL_FORM EXCEPT !.title = option.title,
                          !.platform = IF IsSome(inferredPlatform) THEN Get(inferredPlatform) ELSE @,
                          !.year = IF hasValidYear THEN Get(releaseYear) ELSE @,
                          !.coverUrl = option.thumbnailUrl]

\* the draft after applySuggestion(option)
applySuggestion(prev, option) ==
  LET releaseYear == ParseNumber(SliceHead(option.releaseDate, 4))
      hasValidYear == IsSome(releaseYear) /\ Get(releaseYear) >= MinYear /\ Get(releaseYear) <= MaxYear
      inferredPlatform == inferPlatformFromNames(option.platforms)
  IN [prev EXCEPT !.title = option.title,
                  !.platform = IF IsSome(inferredPlatform) THEN Get(inferredPlatform) ELSE @,
                  !.year = IF hasValidYear THEN Get(releaseYear) ELSE @,
                  !.coverUrl = option.thumbnailUrl]

\* ------------------------------------------------------------------------
\* components/GameForm: inputs
\* ------------------------------------------------------------------------
T_H == <<"H">>
T_HaloBlank == <<"H", "a", "l", "o", " ">>

TypedTitles == {T_H, T_Halo, T_HaloBlank}
SelectablePlatforms == {"PS5", "PC"}
EditedGame ==
  [id |-> "g1", title |-> T_Halo, platform |-> "PC", year |-> MinYear, completed |-> TRUE,
   coverUrl |-> Url("c"), rating |-> 3]
FormApiKeys == {None, Some(<<"k">>)}

\* what the primary source answers a query of the form with
FormResponses ==
  {[kind |-> "results_list", results |-> <<Some(G_Halo), Some(G_HaloPs)>>],
   [kind |-> "results_list", results |-> <<>>],
   [kind |-> "results_not_a_list", results |-> <<>>]}
FormWikiLists == {<<W_Halo>>}

\* every outcome of fetchGameCoverOptions(title, platform, limit) over the
\* given answers of the two sources
CoverOptionsOutcomes(title, platform, limit, responses, wikiLists) ==
  IF getRawgApiKey = <<>>
  THEN {[raised |-> FALSE, options |-> [i \in 1..Len(w) |-> mapWikiOption(w[i])]] : w \in wikiLists}
  ELSE {RawgCoverOptionsOutcome(SearchResultsOf(r), title, platform, limit) : r \in responses}

\* ------------------------------------------------------------------------
\* components/GameForm: the debounce effect
\* ------------------------------------------------------------------------
\* a cleanup without window.clearTimeout(timeoutId)
CleanupKeepsTimer(effect) == [effect EXCEPT !.cancelled = TRUE]

\* the cleanup of one run: cancelled = true; window.clearTimeout(timeoutId)
CleanupEffect(effect) ==
  [effect EXCEPT !.cancelled = TRUE,
                 !.timer = IF @ = "pending" THEN "cleared" ELSE @]

CleanupCurrent(effs, current) ==
  IF current = 0 THEN effs ELSE [effs EXCEPT ![current] = CleanupEffect(@)]

\* lockedSuggestionQueryRef.current !== null && normalizedQuery === lockedSuggestionQueryRef.current
IsLockedQuery(lock, normalizedQuery) == IsSome(lock) /\ normalizedQuery = Get(lock)

\* one run of the effect body, after the cleanup of the run before it
DebounceEffect(effs, query, platform, lock, shown) ==
  LET normalizedQuery == Trim(query)
  IN IF Len(normalizedQuery) < MinQueryLength
     THEN [effects |-> effs, current |-> 0, suggestions |-> <<>>, loading |-> FALSE]
     ELSE IF IsLockedQuery(lock, normalizedQuery)
          THEN [effects |-> effs, current |-> 0, suggestions |-> shown, loading |-> FALSE]
          ELSE [effects |-> Append(effs, [query |-> normalizedQuery, platform |-> platform,
                                          cancelled |-> FALSE, timer |-> "pending",
                                          delay |-> DebounceMs,
                                          call |-> "none", options |-> <<>>]),
                current |-> Len(effs) + 1, suggestions |-> shown, loading |-> TRUE]

\* the render after a state change: the effect runs again when titleQuery or
\* formData.platform changed, its previous cleanup first
AfterRender(query, platform, lock, shown, loading) ==
  IF query = titleQuery /\ platform = formData.platform
  THEN [effects |-> effects, current |-> currentEffect, suggestions |-> shown, loading |-> loading]
  ELSE DebounceEffect(CleanupCurrent(effects, currentEffect), query, platform, lock, shown)

CommitRender(rendered) ==
  /\ Len(rendered.effects) <= MaxEffects
  /\ effects' = rendered.effects
  /\ currentEffect' = rendered.current
  /\ suggestions' = rendered.suggestions
  /\ isLoadingSuggestions' = rendered.loading

FormInitial ==
  /\ mounted = "initial"
  /\ formData = INITIAL_FORM
  /\ titleQuery = <<>>
  /\ suggestions = <<>>
  /\ isLoadingSuggestions = FALSE
  /\ selectedSuggestionId = <<>>
  /\ showSuggestions = FALSE
  /\ lockedSuggestionQueryRef = None
  /\ effects = <<>>
  /\ currentEffect = 0
  /\ pickHistory = [phase |-> "none", title |-> <<>>]

\* the effects of the first render: the editingGame effect, the debounce
\* effect on the initial titleQuery, then the render of what they set
Mount ==
  /\ mounted = "initial"
  /\ mounted' = "mounted"
  /\ LET draft == IF IsSome(editingGame)
                  THEN [title |-> Get(editingGame).title, platform |-> Get(editingGame).platform,
                        year |-> Get(editingGame).year, completed |-> Get(editingGame).completed,
                        coverUrl |-> Get(editingGame).coverUrl, rating |-> Get(editingGame).rating]
                  ELSE INITIAL_FORM
         query == IF IsSome(editingGame) THEN Get(editingGame).title ELSE <<>>
         first == DebounceEffect(effects, titleQuery, formData.platform, lockedSuggestionQueryRef, suggestions)
         rendered == IF query = titleQuery /\ draft.platform = formData.platform
                     THEN first
                     ELSE DebounceEffect(CleanupCurrent(first.effects, first.current), query,
                                         draft.platform, lockedSuggestionQueryRef, first.suggestions)
     IN /\ formData' = draft
        /\ titleQuery' = query
        /\ CommitRender(rendered)
  /\ UNCHANGED <<showSuggestions, selectedSuggestionId, lockedSuggestionQueryRef, pickHistory,
                 editingGame, apiKey, resolveVars, entryVars, probe, managerVars, sourceAnswer>>

\* handleTitleChange leaving the ref alone
LockKeptAfterTitleChange(lock) == lock

\* lockedSuggestionQueryRef.current after handleTitleChange
LockAfterTitleChange(lock) == None

\* handleTitleChange, for a change event (the value differs from the shown one)
handleTitleChange(nextTitle) ==
  /\ mounted = "mounted"
  /\ nextTitle # titleQuery
  /\ lockedSuggestionQueryRef' = LockAfterTitleChange(lockedSuggestionQueryRef)
  /\ titleQuery' = nextTitle
  /\ showSuggestions' = (Len(Trim(nextTitle)) >= MinQueryLength)
  /\ formData' = [formData EXCEPT !.title = nextTitle]
  /\ selectedSuggestionId' = <<>>
  /\ pickHistory' = [pickHistory EXCEPT !.phase = IF @ = "none" THEN "none" ELSE "edited"]
  /\ CommitRender(AfterRender(nextTitle, formData.platform, lockedSuggestionQueryRef',
                              suggestions, isLoadingSuggestions))
  /\ UNCHANGED <<mounted, editingGame, apiKey, resolveVars, entryVars, probe, managerVars, sourceAnswer>>

\* lockedSuggestionQueryRef.current after handlePlatformChange
LockAfterPlatformChange(lock) == None

\* handlePlatformChange, for a change event of the select
handlePlatformChange(value) ==
  /\ mounted = "mounted"
  /\ value # formData.platform
  /\ \E i \in 1..Len(PLATFORMS) : PLATFORMS[i] = value
  /\ lockedSuggestionQueryRef' = LockAfterPlatformChange(lockedSuggestionQueryRef)
  /\ formData' = [formData EXCEPT !.platform = value]
  /\ showSuggestions' = IF Len(Trim(titleQuery)) >= MinQueryLength THEN TRUE ELSE showSuggestions
  /\ CommitRender(AfterRender(titleQuery, value, lockedSuggestionQueryRef',
                              suggestions, isLoadingSuggestions))
  /\ pickHistory' = [pickHistory EXCEPT !.phase = IF @ = "picked" THEN "platform_changed" ELSE @]
  /\ UNCHANGED <<mounted, editingGame, titleQuery, selectedSuggestionId, apiKey, resolveVars, entryVars, probe, managerVars, sourceAnswer>>

\* the suggestion buttons are rendered
SuggestionsShown ==
  /\ showSuggestions
  /\ Len(Trim(titleQuery)) >= MinQueryLength
  /\ ~isLoadingSuggestions

\* handleSelectSuggestion leaving the ref null
NoLockAfterSelect(option) == None

\* lockedSuggestionQueryRef.current after handleSelectSuggestion(option)
LockAfterSelect(option) == Some(Trim(option.title))

handleSelectSuggestion(option) ==
  /\ mounted = "mounted"
  /\ SuggestionsShown
  /\ lockedSuggestionQueryRef' = LockAfterSelect(option)
  /\ titleQuery' = option.title
  /\ showSuggestions' = FALSE
  /\ formData' = applySuggestion(formData, option)
  /\ selectedSuggestionId' = option.id
  /\ pickHistory' = [phase |-> "picked", title |-> Trim(option.title)]
  /\ CommitRender(AfterRender(option.title, formData'.platform, lockedSuggestionQueryRef',
                              suggestions, isLoadingSuggestions))
  /\ UNCHANGED <<mounted, editingGame, apiKey, resolveVars, entryVars, probe, managerVars, sourceAnswer>>

handleCompletedToggle ==
  /\ mounted = "mounted"
  /\ formData' = [formData EXCEPT !.completed = ~@]
  /\ UNCHANGED <<mounted, editingGame, titleQuery, suggestions, isLoadingSuggestions,
                 selectedSuggestionId, showSuggestions, lockedSuggestionQueryRef, effects,
                 currentEffect, pickHistory, apiKey, resolveVars, entryVars, probe, managerVars, sourceAnswer>>

\* the timer of a run expires: fetchGameCoverOptions(normalizedQuery, formData.platform, 4)
TimerFires(i) ==
  /\ effects[i].timer = "pending"
  /\ effects' = [effects EXCEPT ![i].timer = "fired", ![i].call = "inflight"]
  /\ UNCHANGED <<mounted, editingGame, formData, titleQuery, suggestions, isLoadingSuggestions,
                 selectedSuggestionId, showSuggestions, lockedSuggestionQueryRef,
                 currentEffect, pickHistory, apiKey, resolveVars, entryVars, probe, managerVars, sourceAnswer>>

\* no test of the cancelled flag
DiscardsNoResult(effect) == FALSE

\* if (cancelled) return
DiscardsResult(effect) == effect.cancelled

\* the call of a run settles; a rejected call ends the async function there
CallSettles(i, outcome) ==
  /\ effects[i].call = "inflight"
  /\ IF outcome.raised
     THEN /\ effects' = [effects EXCEPT ![i].call = "rejected"]
          /\ UNCHANGED <<formData, suggestions, isLoadingSuggestions, selectedSuggestionId,
                         currentEffect>>
     ELSE LET settled == [effects EXCEPT ![i].call = "resolved", ![i].options = outcome.options]
          IN IF DiscardsResult(effects[i])
             THEN /\ effects' = settled
                  /\ UNCHANGED <<formData, suggestions, isLoadingSuggestions,
                                 selectedSuggestionId, currentEffect>>
             ELSE LET Rendered(draft) ==
                        IF draft.platform = formData.platform
                        THEN [effects |-> settled, current |-> currentEffect,
                              suggestions |-> outcome.options, loading |-> FALSE]
                        ELSE DebounceEffect(CleanupCurrent(settled, currentEffect), titleQuery,
                                            draft.platform, lockedSuggestionQueryRef,
                                            outcome.options)
                  IN \E draft \in {IF Len(outcome.options) > 0
                                    THEN applySuggestion(formData, outcome.options[1])
                                    ELSE formData} :
                     /\ formData' = draft
                     /\ selectedSuggestionId' =
                          IF Len(outcome.options) > 0 THEN outcome.options[1].id
                          ELSE selectedSuggestionId
                     /\ \E rendered \in {Rendered(draft)} : CommitRender(rendered)
  /\ UNCHANGED <<mounted, editingGame, titleQuery, showSuggestions, lockedSuggestionQueryRef,
                 pickHistory, apiKey, resolveVars, entryVars, probe, managerVars, sourceAnswer>>

\* the form is closed: the cleanup of the last run
Unmount ==
  /\ mounted = "mounted"
  /\ mounted' = "unmounted"
  /\ effects' = CleanupCurrent(effects, currentEffect)
  /\ currentEffect' = 0
  /\ UNCHANGED <<editingGame, formData, titleQuery, suggestions, isLoadingSuggestions,
                 selectedSuggestionId, showSuggestions, lockedSuggestionQueryRef,
                 pickHistory, apiKey, resolveVars, entryVars, probe, managerVars, sourceAnswer>>

\* ------------------------------------------------------------------------
\* components/GameManager and components/GameList
\* ------------------------------------------------------------------------
MaxIds == 2

\* what everything outside the two components holds
managerFrame ==
  <<apiKey, resolveVars, mounted, formData, titleQuery, suggestions, isLoadingSuggestions,
    selectedSuggestionId, showSuggestions, lockedSuggestionQueryRef, effects, currentEffect,
    pickHistory, entryVars, probe, sourceAnswer>>

ManagerIdle ==
  /\ games = <<>>
  /\ isFormOpen = FALSE
  /\ pendingDeleteGame = None
  /\ pendingSubmit = None
  /\ nextId = 1

\* drafts the form submits, their title with a trailing blank: a cover
\* between blanks, a cover of one blank
SubmittedGames ==
  {[title |-> T_HaloBlank, platform |-> "PS5", year |-> MinYear, completed |-> TRUE,
    coverUrl |-> <<" ", "u", "c", " ">>, rating |-> 4],
   [title |-> T_HaloBlank, platform |-> "PS5", year |-> InitialYear, completed |-> TRUE,
    coverUrl |-> <<" ">>, rating |-> 5]}

\* what loadGamesFromStorage returns: nothing, or the record of an earlier session
StoredGame ==
  [id |-> 1, title |-> T_Halo2, platform |-> "PS4", year |-> MaxYear, completed |-> FALSE,
   coverUrl |-> Url("s"), rating |-> 2]
StoredCollections == {<<>>, <<StoredGame>>}

\* what the sources answer the calls of the manager with
ManagerAutofillResponses ==
  {[kind |-> "results_list", results |-> <<Some(A_PcFirst)>>],
   [kind |-> "results_list", results |-> <<>>],
   [kind |-> "results_not_a_list", results |-> <<>>]}
ManagerCoverResponses ==
  {[kind |-> "results_list", results |-> <<>>], [kind |-> "results_not_a_list", results |-> <<>>]}
ManagerWikiCovers ==
  {[kind |-> "no_thumbnail", source |-> <<>>], [kind |-> "thumbnail", source |-> Url("w9")]}

\* every outcome of fetchGameCover(title, platform)
GameCoverOutcomes(title, platform) ==
  LET Covers(o) ==
        IF o.raised THEN {[raised |-> TRUE, cover |-> <<>>]}
        ELSE IF Len(o.options) > 0
             THEN {[raised |-> FALSE, cover |-> o.options[1].thumbnailUrl]}
             ELSE {[raised |-> FALSE, cover |-> WikiCoverOf(w)] : w \in ManagerWikiCovers}
  IN UNION {Covers(o) : o \in CoverOptionsOutcomes(title, platform, CoverLimit,
                                                   ManagerCoverResponses, FormWikiLists)}

\* every outcome of fetchGameAutofill(title, fallbackPlatform, fallbackYear)
GameAutofillOutcomes(title, fallbackPlatform, fallbackYear) ==
  LET Rejected == [raised |-> TRUE, result |-> None]
      Fallback(c) ==
        IF c.raised THEN Rejected
        ELSE [raised |-> FALSE,
              result |-> Some(AutofillFallbackOf(title, fallbackPlatform, fallbackYear, c.cover))]
      Of(outcome) ==
        IF outcome.kind = "raised" THEN {Rejected}
        ELSE IF outcome.kind = "best" THEN {[raised |-> FALSE, result |-> outcome.result]}
        ELSE {Fallback(c) : c \in GameCoverOutcomes(title, fallbackPlatform)}
  IN IF getRawgApiKey = <<>>
     THEN Of([kind |-> "none", result |-> None])
     ELSE UNION {Of(AutofillOutcome(SearchResultsOf(r), title, fallbackPlatform, fallbackYear)) :
                   r \in ManagerAutofillResponses}

createId == nextId

\* GameForm: the submit of the open form has not returned; both buttons are disabled
isSubmitting == IsSome(pendingSubmit)

\* { id, ...game, coverUrl }
WithIdAndCover(id, game, coverUrl) ==
  [id |-> id, title |-> game.title, platform |-> game.platform, year |-> game.year,
   completed |-> game.completed, coverUrl |-> coverUrl, rating |-> game.rating]

\* the record of handleCreateGame that keeps the submitted title, platform and year
GameWithIdAsSubmitted(id, newGame, autofill, coverUrl) == WithIdAndCover(id, newGame, coverUrl)

\* the record of handleCreateGame after fetchGameAutofill
GameWithIdFromAutofill(id, newGame, autofill, coverUrl) ==
  [WithIdAndCover(id, newGame, coverUrl) EXCEPT !.title = autofill.title,
                                                !.platform = autofill.platform,
                                                !.year = autofill.year]

\* resolveCoverUrl after fetchGameCover returned
ResolvedCoverUrl(fetchedCover, fallbackCoverUrl) ==
  IF fetchedCover # <<>> THEN fetchedCover ELSE fallbackCoverUrl

\* setGames((prevGames) => [gameWithId, ...prevGames]); setIsFormOpen(false)
StoreCreated(gameWithId) ==
  /\ games' = <<gameWithId>> \o games
  /\ nextId' = nextId + 1
  /\ isFormOpen' = FALSE
  /\ UNCHANGED <<editingGame, pendingDeleteGame>>

\* prevGames.map(...) that appends the record when no record has the id
MapOrAppendGame(prevGames, id, updatedGame, coverUrl) ==
  IF \E i \in 1..Len(prevGames) : prevGames[i].id = id
  THEN [i \in 1..Len(prevGames) |->
          IF prevGames[i].id = id THEN WithIdAndCover(id, updatedGame, coverUrl)
          ELSE prevGames[i]]
  ELSE Append(prevGames, WithIdAndCover(id, updatedGame, coverUrl))

\* prevGames.map((game) => game.id === id ? { id, ...updatedGame, coverUrl } : game)
MapUpdatedGame(prevGames, id, updatedGame, coverUrl) ==
  [i \in 1..Len(prevGames) |->
     IF prevGames[i].id = id THEN WithIdAndCover(id, updatedGame, coverUrl) ELSE prevGames[i]]

\* handleUpdateGame after resolveCoverUrl returned
StoreUpdated(task, coverUrl) ==
  /\ games' = MapUpdatedGame(games, task.id, task.game, coverUrl)
  /\ editingGame' = None
  /\ isFormOpen' = FALSE
  /\ UNCHANGED <<pendingDeleteGame, nextId>>

GameCoverCall(title, platform) == [fn |-> "fetchGameCover", title |-> title, platform |-> platform]

handleOpenCreateClick ==
  /\ editingGame' = None
  /\ isFormOpen' = TRUE
  /\ UNCHANGED <<games, pendingDeleteGame, pendingSubmit, nextId, managerFrame>>

\* GameForm.handleSubmit without editingGame: handleCreateGame(newGame) up to
\* its first await, or to its end when the cover is given
handleCreateGame(newGame) ==
  /\ isFormOpen
  /\ editingGame = None
  /\ ~isSubmitting
  /\ nextId <= MaxIds
  /\ IF Trim(newGame.coverUrl) # <<>>
     THEN /\ StoreCreated(GameWithIdAsSubmitted(createId, newGame, None, Trim(newGame.coverUrl)))
          /\ UNCHANGED pendingSubmit
     ELSE /\ pendingSubmit' = Some(
                 [kind |-> "create", stage |-> "autofill", id |-> 0, game |-> newGame,
                  fallbackCoverUrl |-> <<>>, autofill |-> None,
                  calls |-> <<[fn |-> "fetchGameAutofill", title |-> Trim(newGame.title),
                               platform |-> newGame.platform, year |-> newGame.year]>>])
          /\ UNCHANGED <<games, editingGame, isFormOpen, pendingDeleteGame, nextId>>
  /\ UNCHANGED managerFrame

\* fetchGameAutofill settles inside handleCreateGame
CreateAutofillSettles(outcome) ==
  /\ isSubmitting
  /\ Get(pendingSubmit).stage = "autofill"
  /\ IF outcome.raised
     THEN /\ pendingSubmit' = None
          /\ UNCHANGED <<games, editingGame, isFormOpen, pendingDeleteGame, nextId>>
     ELSE LET autofill == Get(outcome.result)
              task == [Get(pendingSubmit) EXCEPT !.autofill = outcome.result]
          IN IF autofill.coverUrl # <<>>
             THEN /\ StoreCreated(GameWithIdFromAutofill(createId, task.game, autofill,
                                                         autofill.coverUrl))
                  /\ pendingSubmit' = None
             ELSE /\ pendingSubmit' =
                       Some([task EXCEPT !.stage = "cover",
                                         !.calls = Append(@, GameCoverCall(task.game.title,
                                                                           task.game.platform))])
                  /\ UNCHANGED <<games, editingGame, isFormOpen, pendingDeleteGame, nextId>>
  /\ UNCHANGED managerFrame

\* fetchGameCover settles inside resolveCoverUrl
CoverSettles(outcome) ==
  /\ isSubmitting
  /\ Get(pendingSubmit).stage = "cover"
  /\ pendingSubmit' = None
  /\ IF outcome.raised
     THEN UNCHANGED <<games, editingGame, isFormOpen, pendingDeleteGame, nextId>>
     ELSE LET task == Get(pendingSubmit)
              coverUrl == ResolvedCoverUrl(outcome.cover, task.fallbackCoverUrl)
          IN IF task.kind = "create"
             THEN StoreCreated(GameWithIdFromAutofill(createId, task.game, Get(task.autofill),
                                                      coverUrl))
             ELSE StoreUpdated(task, coverUrl)
  /\ UNCHANGED managerFrame

\* GameForm.handleSubmit with editingGame: handleUpdateGame(id, updatedGame)
\* up to the await of fetchGameCover, or to its end when the cover is given
handleUpdateGame(id, updatedGame) ==
  /\ isFormOpen
  /\ IsSome(editingGame)
  /\ id = Get(editingGame).id
  /\ ~isSubmitting
  /\ LET existing == SelectSeq(games, LAMBDA game : game.id = id)
         task == [kind |-> "update", stage |-> "cover", id |-> id, game |-> updatedGame,
                  fallbackCoverUrl |-> IF existing = <<>> THEN <<>> ELSE existing[1].coverUrl,
                  autofill |-> None, calls |-> <<>>]
     IN IF Trim(updatedGame.coverUrl) # <<>>
        THEN /\ StoreUpdated(task, Trim(updatedGame.coverUrl))
             /\ UNCHANGED pendingSubmit
        ELSE /\ pendingSubmit' = Some([task EXCEPT !.calls = <<GameCoverCall(updatedGame.title,
                                                                             updatedGame.platform)>>])
             /\ UNCHANGED <<games, editingGame, isFormOpen, pendingDeleteGame, nextId>>
  /\ UNCHANGED managerFrame

\* handleDeleteGame(id)
handleDeleteGame(id) ==
  /\ games' = SelectSeq(games, LAMBDA game : game.id # id)
  /\ editingGame' = IF IsSome(editingGame) /\ Get(editingGame).id = id THEN None ELSE editingGame

handleStartEdit(game) ==
  /\ editingGame' = Some(game)
  /\ isFormOpen' = TRUE
  /\ UNCHANGED <<games, pendingDeleteGame, pendingSubmit, nextId, managerFrame>>

\* GameForm.handleCancelClick: the button is disabled during a submit
handleCloseForm ==
  /\ isFormOpen
  /\ ~isSubmitting
  /\ editingGame' = None
  /\ isFormOpen' = FALSE
  /\ UNCHANGED <<games, pendingDeleteGame, pendingSubmit, nextId, managerFrame>>

\* GameList: the delete button of a record
handleDeleteClick(game) ==
  /\ pendingDeleteGame' = Some(game)
  /\ UNCHANGED <<games, editingGame, isFormOpen, pendingSubmit, nextId, managerFrame>>

\* GameList: the confirmation closes without a delete
handleDeleteDialogOpenChange ==
  /\ IsSome(pendingDeleteGame)
  /\ pendingDeleteGame' = None
  /\ UNCHANGED <<games, editingGame, isFormOpen, pendingSubmit, nextId, managerFrame>>

\* GameList: the confirmation is accepted
handleConfirmDelete ==
  /\ IsSome(pendingDeleteGame)
  /\ handleDeleteGame(Get(pendingDeleteGame).id)
  /\ pendingDeleteGame' = None
  /\ UNCHANGED <<isFormOpen, pendingSubmit, nextId, managerFrame>>

\* ------------------------------------------------------------------------
\* Specifications
\* ------------------------------------------------------------------------
\* the form, from its first render
Init ==
  /\ apiKey \in FormApiKeys
  /\ editingGame \in {None, Some(EditedGame)}
  /\ ResolveIdle
  /\ FormInitial
  /\ EntryIdle
  /\ probe = ProbeIdle
  /\ ManagerIdle
  /\ sourceAnswer = None

Next ==
  \/ Mount
  \/ \E t \in TypedTitles : handleTitleChange(t)
  \/ \E p \in SelectablePlatforms : handlePlatformChange(p)
  \/ \E k \in 1..Len(suggestions) : handleSelectSuggestion(suggestions[k])
  \/ handleCompletedToggle
  \/ \E i \in 1..Len(effects) : TimerFires(i)
  \/ \E i \in {j \in 1..Len(effects) : effects[j].call = "inflight"} :
       \E outcome \in CoverOptionsOutcomes(effects[i].query, effects[i].platform, SuggestionLimit,
                                           FormResponses, FormWikiLists) :
         CallSettles(i, outcome)
  \/ Unmount

Spec == Init /\ [][Next]_vars

\* one call of fetchGameCoverOptions after another
InitResolve ==
  /\ apiKey \in ApiKeys
  /\ editingGame = None
  /\ ResolveIdle
  /\ FormInitial
  /\ EntryIdle
  /\ probe = ProbeIdle
  /\ ManagerIdle
  /\ sourceAnswer = None

NextResolve ==
  \/ \E t \in QueryTitles, p \in QueryPlatforms, n \in QueryLimits : CallCoverOptions(t, p, n)
  \/ \E r \in RawgResponses : RawgSettles(r)
  \/ \E w \in WikiCoverOptionLists(rq.limit) : WikiSettles(w)
  \/ CallReturns

SpecResolve == InitResolve /\ [][NextResolve]_vars

\* one call of fetchGameCover or fetchGameAutofill after another
EntryResponses == FormResponses \cup {[kind |-> "http_error", results |-> <<>>]}

InitEntry ==
  /\ apiKey \in FormApiKeys \cup {Some(<<" ">>)}
  /\ editingGame = None
  /\ ResolveIdle
  /\ FormInitial
  /\ EntryIdle
  /\ probe = ProbeIdle
  /\ ManagerIdle
  /\ sourceAnswer = None

NextEntry ==
  \/ \E t \in QueryTitles, p \in QueryPlatforms : CallGameCover(t, p)
  \/ \E t \in QueryTitles, p \in QueryPlatforms, y \in FallbackYears : CallAutofill(t, p, y)
  \/ \E r \in AutofillResponses : AutofillRawgSettles(r)
  \/ \E r \in EntryResponses : RawgSettles(r)
  \/ \E w \in WikiCoverOptionLists(rq.limit) : WikiSettles(w)
  \/ CoverOptionsSettle
  \/ \E r \in WikiCoverResponses : WikiCoverSettles(r)
  \/ AutofillCoverSettles
  \/ EntryReturns

SpecEntry == InitEntry /\ [][NextEntry]_vars

\* the collection, its handlers and the calls they await
InitManager ==
  /\ apiKey \in FormApiKeys
  /\ editingGame = None
  /\ ResolveIdle
  /\ FormInitial
  /\ EntryIdle
  /\ probe = ProbeIdle
  /\ games \in StoredCollections
  /\ isFormOpen = FALSE
  /\ pendingDeleteGame = None
  /\ pendingSubmit = None
  /\ nextId = Len(games) + 1
  /\ sourceAnswer = None

NextManager ==
  \/ handleOpenCreateClick
  \/ \E newGame \in SubmittedGames : handleCreateGame(newGame)
  \/ \E task \in {Get(pendingSubmit) : i \in 1..Len(pendingSubmit)} :
       \E outcome \in GameAutofillOutcomes(Trim(task.game.title), task.game.platform,
                                           task.game.year) :
         CreateAutofillSettles(outcome)
  \/ \E task \in {Get(pendingSubmit) : i \in 1..Len(pendingSubmit)} :
       \E outcome \in GameCoverOutcomes(task.game.title, task.game.platform) :
         CoverSettles(outcome)
  \/ \E id \in 1..MaxIds, updatedGame \in SubmittedGames : handleUpdateGame(id, updatedGame)
  \/ \E i \in 1..Len(games) : handleStartEdit(games[i])
  \/ handleCloseForm
  \/ \E i \in 1..Len(games) : handleDeleteClick(games[i])
  \/ handleDeleteDialogOpenChange
  \/ handleConfirmDelete

SpecManager == InitManager /\ [][NextManager]_vars

\* the form opened on a record and left to itself, the primary source
\* answering every search of the title with one response
DriverPlatforms == {"PC", "PS5", "PS4"}
DriverResponses ==
  {[kind |-> "results_list", results |-> r] :
     r \in SeqsUpTo({Some(G_Halo), Some(G_HaloPs), Some(A_Ps4First)}, MaxResults)}
  \cup {[kind |-> "results_not_a_list", results |-> <<>>]}

\* fetchGameCoverOptions(title, platform, 4) for every platform when the
\* primary source answers the search of the title with the response
DriverAnswer(title, response) ==
  [title |-> title, response |-> response,
   outcomes |-> [p \in Range(PLATFORMS) |->
                   CHOOSE o \in CoverOptionsOutcomes(title, p, SuggestionLimit, {response},
                                                     FormWikiLists) : TRUE]]

InitDriver ==
  /\ apiKey \in FormApiKeys
  /\ editingGame \in {Some([EditedGame EXCEPT !.platform = p]) : p \in DriverPlatforms}
  /\ ResolveIdle
  /\ FormInitial
  /\ EntryIdle
  /\ probe = ProbeIdle
  /\ ManagerIdle
  /\ sourceAnswer \in {Some(DriverAnswer(Trim(EditedGame.title), r)) : r \in DriverResponses}

\* window.setTimeout: the timer of a run expires
DriverTimerFires == \E i \in 1..Len(effects) : TimerFires(i)

\* the sources answer the call of a run
DriverCallSettles ==
  \E i \in {j \in 1..Len(effects) : effects[j].call = "inflight"} :
    /\ effects[i].query = Get(sourceAnswer).title
    /\ CallSettles(i, Get(sourceAnswer).outcomes[effects[i].platform])

NextDriver ==
  \/ Mount
  \/ DriverTimerFires
  \/ DriverCallSettles

\* effects run after the render, timers expire and every call is answered
SpecDriver ==
  /\ InitDriver
  /\ [][NextDriver]_vars
  /\ WF_vars(Mount)
  /\ WF_vars(DriverTimerFires)
  /\ WF_vars(DriverCallSettles)

\* ------------------------------------------------------------------------
\* The pure functions, each applied once to arguments of the caller's choice
\* ------------------------------------------------------------------------
\* platform names as the primary source spells them
PlatformNames ==
  {T_PlayStation5, T_PlayStation4, T_PlayStation, T_NintendoSwitch, T_GameBoy, T_Windows,
   T_Atari2600, T_PC, T_Xbox}

PlatformNameLists == SeqsUpTo(PlatformNames, MaxNames)

T_SuperGame == <<"S", "u", "p", "e", "r", " ", "G", "a", "m", "e">>
T_SuperGame2 == <<"S", "u", "p", "e", "r", " ", "G", "a", "m", "e", " ", "2">>
T_SuperGameOst == <<"S", "u", "p", "e", "r", " ", "G", "a", "m", "e", ":", " ", "D", "e", "f", "i", "n", "i", "t", "i", "v", "e", " ", "E", "d", "i", "t", "i", "o", "n", " ", "S", "o", "u", "n", "d", "t", "r", "a", "c", "k">>
T_MostWanted == <<"M", "o", "s", "t", " ", "W", "a", "n", "t", "e", "d">>
T_HaloReach == <<"H", "A", "L", "O", ":", " ", "R", "e", "a", "c", "h">>
T_Hal == <<"H", "a", "l">>
T_SuperGameShout == <<"S", "U", "P", "E", "R", " ", " ", "G", "A", "M", "E", "!">>
T_Demo == <<"D", "é", "m", "o">>
T_Most == <<"m", "o", "s", "t">>

\* names of records and titles typed by the user
CandidateNames ==
  {T_SuperGame2, T_SuperGameOst, T_SuperGame, T_MostWanted, T_Halo, T_HaloReach, T_HaloDlc,
   T_Demo, T_Zelda, <<>>}
CandidateQueries == {T_SuperGame, T_SuperGameShout, T_Halo, T_Hal, T_Ha, T_Most, <<>>}

\* inferPlatformFromNames(platformNames) of the form
ApplyInferPlatformFromNames(platformNames) ==
  /\ probe = ProbeIdle
  /\ probe' = [fn |-> "inferPlatformFromNames", platformNames |-> platformNames,
               out |-> inferPlatformFromNames(platformNames)]
  /\ UNCHANGED <<apiKey, resolveVars, formVars, entryVars, managerVars, sourceAnswer>>

\* inferPlatformFromRawg(platformNodes), every node holding a name
ApplyInferPlatformFromRawg(platformNames) ==
  /\ probe = ProbeIdle
  /\ probe' = [fn |-> "inferPlatformFromRawg", platformNames |-> platformNames,
               out |-> inferPlatformFromRawg([i \in 1..Len(platformNames) |->
                                                Some(platformNames[i])])]
  /\ UNCHANGED <<apiKey, resolveVars, formVars, entryVars, managerVars, sourceAnswer>>

T_TheHalo == <<"T", "h", "e", " ", "H", "a", "l", "o">>

\* ratings_count, added, metacritic and rating (in hundredths) of a record:
\* absent, at or above every cap, below every cap, and a negative count
Popularities ==
  {[ratings_count |-> None, added |-> None, metacritic |-> None, rating |-> None],
   [ratings_count |-> Some(9000), added |-> Some(9000), metacritic |-> Some(100),
    rating |-> Some(500)],
   [ratings_count |-> Some(1000), added |-> Some(400), metacritic |-> Some(80),
    rating |-> Some(450)],
   [ratings_count |-> Some(0 - 20000), added |-> None, metacritic |-> None, rating |-> None]}

\* records whose title equals "Halo", starts with it, holds it or does not
\* match it, on a platform that is the asked one or not, with an image or
\* without
ScoredGames ==
  {[RawgGame(Some(1), Some(name), image, None, None, Some(<<Some(platformName)>>),
             popularity.ratings_count)
      EXCEPT !.added = popularity.added,
             !.metacritic = popularity.metacritic,
             !.rating = popularity.rating] :
     name \in {T_Halo, T_Halo2, T_TheHalo, T_Zelda},
     image \in {Some(Url("1")), None},
     platformName \in {T_PC, T_Xbox},
     popularity \in Popularities}

\* scoreRawgGame(a, title, platform) and scoreRawgGame(b, title, platform)
ApplyScoreRawgGame(a, b, title, platform) ==
  /\ probe = ProbeIdle
  /\ probe' = [fn |-> "scoreRawgGame", a |-> a, b |-> b, title |-> title,
               platform |-> platform,
               scoreA |-> scoreRawgGame(a, title, platform),
               scoreB |-> scoreRawgGame(b, title, platform)]
  /\ UNCHANGED <<apiKey, resolveVars, formVars, entryVars, managerVars, sourceAnswer>>

\* characters of a text: letters of both cases, with an accent, a combining
\* mark on its own, blanks, punctuation, an underscore and a digit
TextChars == {"A", "a", "é", "É", CombiningAcute, " ", "\t", "!", "_", "1"}

Texts == SeqsUpTo(TextChars, MaxText)

\* normalizeText(value), and normalizeText of what it returned
ApplyNormalizeText(value) ==
  /\ probe = ProbeIdle
  /\ \E normalized \in {normalizeText(value)} :
       probe' = [fn |-> "normalizeText", value |-> value, out |-> normalized,
                 again |-> normalizeText(normalized)]
  /\ UNCHANGED <<apiKey, resolveVars, formVars, entryVars, managerVars, sourceAnswer>>

T_HaloShout == <<" ", "H", "A", "L", "O", "!">>

\* the records of a search, none of them null
RankedLists == SeqsUpTo(RawgItems \ {None}, MaxResults)

\* the sorted list of fetchRawgCoverOptions and the one of fetchGameAutofill
\* for the same records, title and platform
ApplySorts(results, title, platform) ==
  /\ probe = ProbeIdle
  /\ probe' = [fn |-> "sort", results |-> results, title |-> title, platform |-> platform,
               options |-> RawgSortedOf(results, title, platform),
               autofill |-> AutofillSortedOf(results, title, platform)]
  /\ UNCHANGED <<apiKey, resolveVars, formVars, entryVars, managerVars, sourceAnswer>>

\* isMainGameCandidate(gameName, queryTitle)
ApplyIsMainGameCandidate(gameName, queryTitle) ==
  /\ probe = ProbeIdle
  /\ probe' = [fn |-> "isMainGameCandidate", gameName |-> gameName, queryTitle |-> queryTitle,
               out |-> isMainGameCandidate(gameName, queryTitle)]
  /\ UNCHANGED <<apiKey, resolveVars, formVars, entryVars, managerVars, sourceAnswer>>

InitProbe ==
  /\ apiKey = None
  /\ editingGame = None
  /\ ResolveIdle
  /\ FormInitial
  /\ EntryIdle
  /\ probe = ProbeIdle
  /\ ManagerIdle
  /\ sourceAnswer = None

NextProbe ==
  \/ \E names \in PlatformNameLists : ApplyInferPlatformFromNames(names)
  \/ \E names \in PlatformNameLists : ApplyInferPlatformFromRawg(names)
  \/ \E name \in CandidateNames, query \in CandidateQueries : ApplyIsMainGameCandidate(name, query)
  \/ \E a \in ScoredGames, b \in ScoredGames : ApplyScoreRawgGame(a, b, T_Halo, "PC")
  \/ \E value \in Texts : ApplyNormalizeText(value)
  \/ \E results \in RankedLists, title \in {T_Halo, T_Ha, T_HaloShout}, p \in QueryPlatforms :
       ApplySorts(results, title, p)

SpecProbe == InitProbe /\ [][NextProbe]_vars

\* ------------------------------------------------------------------------
\* Properties of fetchGameCoverOptions (SpecResolve)
\* ------------------------------------------------------------------------
\* the records of the settled RAWG response, <<>> when there is none
ResponseItems == IF IsSome(rawgResponse) THEN Get(rawgResponse).results ELSE <<>>

HasImage(game) ==
  \/ IsSome(game.background_image_additional) /\ Get(game.background_image_additional) # <<>>
  \/ IsSome(game.background_image) /\ Get(game.background_image) # <<>>

\* a credential is configured: the variable is set and not blank
HasCredential == IsSome(apiKey) /\ Trim(Get(apiKey)) # <<>>

\* two records of the response that pass the filter, in source order
AdmittedPair(i, j) ==
  /\ i < j
  /\ IsSome(ResponseItems[i]) /\ IsSome(ResponseItems[j])
  /\ IsRawgGameWithCover(Get(ResponseItems[i]), rq.title)
  /\ IsRawgGameWithCover(Get(ResponseItems[j]), rq.title)

\* C1: the list returned by fetchGameCoverOptions holds no two candidates
\* with the same thumbnailUrl, whatever the source returned
C1_UniqueThumbnails ==
  pc = "done" =>
    \A i, j \in 1..Len(result) : result[i].thumbnailUrl = result[j].thumbnailUrl => i = j

\* two admitted records of one response share their image and one is returned
C1_Witness ==
  /\ pc = "done"
  /\ Len(result) = 1
  /\ rq.limit >= 2
  /\ \E i, j \in 1..Len(ResponseItems) :
       /\ AdmittedPair(i, j)
       /\ pickBestRawgImage(Get(ResponseItems[i])) = pickBestRawgImage(Get(ResponseItems[j]))

\* C2, as stated: for every integer limit, also 0 and a negative one, the
\* returned list has at most limit elements
C2_AtMostLimit == pc = "done" => Len(result) <= rq.limit

\* C2, amended: for every limit >= 0 the returned list has at most limit
\* elements
C2_AtMostNonNegativeLimit == (pc = "done" /\ rq.limit >= 0) => Len(result) <= rq.limit

\* two admitted records with different images, a limit of 1, one returned
C2_Witness ==
  /\ pc = "done"
  /\ rq.limit = 1
  /\ Len(result) = 1
  /\ \E i, j \in 1..Len(ResponseItems) :
       /\ AdmittedPair(i, j)
       /\ pickBestRawgImage(Get(ResponseItems[i])) # pickBestRawgImage(Get(ResponseItems[j]))

\* C3: every returned candidate has a non-empty thumbnailUrl, and a RAWG
\* candidate comes from a record of the response that has a numeric id, a
\* string name and a non-empty image
C3_NonEmptyThumbnails ==
  pc = "done" =>
    \A k \in 1..Len(result) :
      /\ result[k].thumbnailUrl # <<>>
      /\ result[k].source = "rawg" =>
           \E i \in 1..Len(ResponseItems) :
             /\ IsSome(ResponseItems[i])
             /\ IsSome(Get(ResponseItems[i]).id)
             /\ IsSome(Get(ResponseItems[i]).name)
             /\ HasImage(Get(ResponseItems[i]))
             /\ result[k].id = <<"rawg-", Get(Get(ResponseItems[i]).id)>>
             /\ result[k].title = Get(Get(ResponseItems[i]).name)

\* a response holding a record without id, name or image beside a good one
C3_Witness ==
  /\ pc = "done"
  /\ Len(result) >= 1
  /\ \E i \in 1..Len(ResponseItems) :
       /\ IsSome(ResponseItems[i])
       /\ \/ ~IsSome(Get(ResponseItems[i]).id)
          \/ ~IsSome(Get(ResponseItems[i]).name)
          \/ ~HasImage(Get(ResponseItems[i]))

\* C4: with a credential configured, the fallback source is never queried
\* and the call returns what the primary pipeline made of the response, also
\* when that is empty
C4_PrimaryIsAuthoritative ==
  HasCredential =>
    /\ pc # "wiki"
    /\ \A k \in 1..Len(requests) : requests[k].source # "wikipedia"
    /\ pc = "done" =>
         /\ IsSome(rawgResponse)
         /\ ~IsSome(wikiResponse)
         /\ result = RawgCoverOptionsOutcome(SearchResultsOf(Get(rawgResponse)), rq.title,
                                             rq.platform, rq.limit).options

\* a response whose records are all filtered out, an empty list returned
C4_Witness ==
  /\ HasCredential
  /\ pc = "done"
  /\ result = <<>>
  /\ Len(ResponseItems) > 0

\* C5: without a credential (absent, or blank after trimming) no RAWG
\* request is issued, the primary adapter returns empty, and the call returns
\* the fallback adapter's candidates for the same title, platform and limit,
\* in the same order, each as id "wiki-<id>", source "wikipedia", the same
\* title and thumbnailUrl and empty releaseDate, platforms and genres
C5_FallbackWithoutCredential ==
  ~HasCredential =>
    /\ pc \notin {"rawg", "raised"}
    /\ \A k \in 1..Len(requests) : requests[k].source # "rawg"
    /\ rawgOptions = <<>>
    /\ pc \in {"wiki", "done"} =>
         requests = <<[source |-> "wikipedia", search |-> rq.title, platform |-> rq.platform,
                       limit |-> rq.limit]>>
    /\ pc = "done" =>
         /\ IsSome(wikiResponse)
         /\ Len(result) = Len(Get(wikiResponse))
         /\ \A i \in 1..Len(result) :
              result[i] = [id |-> <<"wiki-", Get(wikiResponse)[i].id>>,
                           title |-> Get(wikiResponse)[i].title,
                           thumbnailUrl |-> Get(wikiResponse)[i].thumbnailUrl,
                           releaseDate |-> <<>>, platforms |-> <<>>, genres |-> <<>>,
                           source |-> "wikipedia"]

\* a blank credential, two fallback candidates returned
C5_Witness ==
  /\ IsSome(apiKey)
  /\ Get(apiKey) # <<>>
  /\ ~HasCredential
  /\ pc = "done"
  /\ Len(result) = 2

\* C6: the call never fails its caller: on a network error, a status that
\* is not ok, a body that is not JSON or a payload of unexpected shape it
\* completes, and with the empty list
C6_NeverFails ==
  /\ pc # "raised"
  /\ (IsSome(rawgResponse) /\ Get(rawgResponse).kind # "results_list") =>
       (pc = "done" /\ result = <<>>)

\* ------------------------------------------------------------------------
\* Properties of the debounced driver of GameForm (Spec)
\* ------------------------------------------------------------------------
\* the timer of run i expires in this step: its call is issued
IssuesCall(i) == effects[i].timer = "pending" /\ effects'[i].timer = "fired"

\* C7: a change that arrives before the timer of an earlier change expired
\* cancels that timer, which never issues a call: only the timer of the
\* latest change is ever pending, and the call it issues carries the
\* (trimmed) title and the platform of that change
C7_OnlyLatestChangeQueries ==
  [][/\ \A i \in 1..Len(effects) :
          IssuesCall(i) =>
            /\ ~effects[i].cancelled
            /\ effects[i].query = Trim(titleQuery)
            /\ effects[i].platform = formData.platform
     /\ \A i \in 1..Len(effects') :
          effects'[i].timer = "pending" => (i = Len(effects') /\ i = currentEffect')]_vars

\* a timer cleared by a change of the platform, whose own timer expired and
\* issued the call
C7_Witness ==
  \E i, j \in 1..Len(effects) :
    /\ i < j
    /\ effects[i].timer = "cleared"
    /\ effects[j].timer = "fired"
    /\ effects[i].platform # effects[j].platform

\* C8: a call that settles after a newer change was processed, or after the
\* form was closed, changes neither the suggestions, the loading flag, the
\* selected suggestion nor the draft
C8_StaleResultChangesNothing ==
  [][\A i \in 1..Len(effects) :
       (/\ effects[i].call = "inflight"
        /\ effects'[i].call # "inflight"
        /\ (i # currentEffect \/ mounted # "mounted")) =>
         UNCHANGED <<suggestions, isLoadingSuggestions, selectedSuggestionId, formData>>]_vars

\* a superseded call resolved with candidates and the draft has no cover
C8_Witness ==
  /\ mounted = "mounted"
  /\ formData.coverUrl = <<>>
  /\ \E i \in 1..Len(effects) :
       /\ i # currentEffect
       /\ effects[i].call = "resolved"
       /\ Len(effects[i].options) > 0

\* C9, as stated: after a pick, as long as the title is not edited, no call
\* is issued, whatever else re-triggers the debounce, a platform change by
\* the user included
C9_NoQueryUntilTitleEdit ==
  [][pickHistory.phase \in {"picked", "platform_changed"} =>
       \A i \in 1..Len(effects) : ~IssuesCall(i)]_vars

\* C9, amended: after a pick, as long as the user neither edits the title
\* nor changes the platform, no timer is pending and no call is issued, the
\* platform change made by applying the suggestion included
C9_NoQueryWhileLocked ==
  [][/\ pickHistory.phase = "picked" => \A i \in 1..Len(effects) : ~IssuesCall(i)
     /\ pickHistory'.phase = "picked" =>
          \A i \in 1..Len(effects') : effects'[i].timer # "pending"]_vars

\* the pick changed the platform, the effect ran again and met the lock
C9_Witness ==
  /\ pickHistory.phase = "picked"
  /\ lockedSuggestionQueryRef = Some(pickHistory.title)
  /\ currentEffect = 0
  /\ \E i \in 1..Len(effects) :
       /\ effects[i].call = "resolved"
       /\ effects[i].platform # formData.platform

\* C10: every edit of the title clears the lock, and an edited title of at
\* least 2 characters (trimmed) has its query scheduled, also when it equals
\* the title that was locked
C10_TitleEditClearsLock ==
  [][(/\ mounted = "mounted"
      /\ titleQuery' # titleQuery
      /\ pickHistory'.phase \in {"none", "edited"}) =>
       /\ lockedSuggestionQueryRef' = None
       /\ Len(Trim(titleQuery')) >= MinQueryLength =>
            \E i \in 1..Len(effects') :
              /\ i = currentEffect'
              /\ effects'[i].timer = "pending"
              /\ ~effects'[i].cancelled
              /\ effects'[i].query = Trim(titleQuery')
              /\ effects'[i].platform = formData'.platform]_vars

\* after a pick the title was edited to the locked title and its call issued
C10_Witness ==
  /\ pickHistory.phase = "edited"
  /\ Trim(titleQuery) = pickHistory.title
  /\ currentEffect # 0
  /\ effects[currentEffect].timer = "fired"
  /\ effects[currentEffect].query = pickHistory.title

\* the year of a release date: its first 4 characters, read as a number
ReleaseYearOf(releaseDate) == ParseNumber(SliceHead(releaseDate, 4))

InYearWindow(year) == IsSome(year) /\ Get(year) >= MinYear /\ Get(year) <= MaxYear

\* C11: when a call that was not superseded resolves with a candidate, the
\* draft takes the title and the thumbnail of the first candidate, the
\* platform inferred from its platform names if there is one, its release
\* year if that lies in 1970..2030, and keeps completed and rating; when it
\* resolves without a candidate the draft is unchanged
C11_TopCandidateApplied ==
  [][\A i \in 1..Len(effects) :
       (/\ effects[i].call = "inflight"
        /\ effects'[i].call = "resolved"
        /\ ~effects[i].cancelled) =>
         IF Len(effects'[i].options) = 0
         THEN formData' = formData
         ELSE /\ formData'.title = effects'[i].options[1].title
              /\ formData'.coverUrl = effects'[i].options[1].thumbnailUrl
              /\ formData'.platform =
                   IF IsSome(inferPlatformFromNames(effects'[i].options[1].platforms))
                   THEN Get(inferPlatformFromNames(effects'[i].options[1].platforms))
                   ELSE formData.platform
              /\ formData'.year =
                   IF InYearWindow(ReleaseYearOf(effects'[i].options[1].releaseDate))
                   THEN Get(ReleaseYearOf(effects'[i].options[1].releaseDate))
                   ELSE formData.year
              /\ formData'.completed = formData.completed
              /\ formData'.rating = formData.rating]_vars

\* the first candidate of a resolved call is on a draft the user had marked
\* completed, with its release year, and no suggestion was ever picked
C11_Witness ==
  /\ mounted = "mounted"
  /\ editingGame = None
  /\ pickHistory.phase = "none"
  /\ formData.completed
  /\ formData.year # InitialYear
  /\ \E i \in 1..Len(effects) :
       /\ effects[i].call = "resolved"
       /\ Len(effects[i].options) > 0
       /\ selectedSuggestionId = effects[i].options[1].id
       /\ formData.title = effects[i].options[1].title
       /\ formData.coverUrl = effects[i].options[1].thumbnailUrl

\* the records the search of fetchGameAutofill returned, none without a
\* credential
AutofillFound ==
  IF IsSome(autofillCall.response)
  THEN SearchResultsOf(Get(autofillCall.response)).items
  ELSE <<>>

\* no record of the search of fetchGameAutofill passes its filter
NoneQualifies ==
  \A i \in 1..Len(AutofillFound) :
    ~IsSome(AutofillFound[i]) \/ ~IsRawgGameWithCover(Get(AutofillFound[i]), autofillCall.title)

ReturnedBest == autofillCall.stage = "done" /\ ~NoneQualifies

\* the best result of the search of fetchGameAutofill
AutofillBest ==
  Get(AutofillBestResult(AutofillFound, autofillCall.title, autofillCall.fallbackPlatform))

\* the names of the best result as the form receives them in a candidate
BestPlatformNames == SelectSeq(PlatformNodeNames(AutofillBest), NonEmptyText)

\* C13: the platform fetchGameAutofill returns for its best result is the
\* form's classifier applied to the joined platform names of that result,
\* and fallbackPlatform when the classifier finds none
C13_PlatformOfWholeList ==
  ReturnedBest =>
    \E inferred \in {inferPlatformFromNames(BestPlatformNames)} :
      Get(autofillCall.result).platform =
        IF IsSome(inferred) THEN Get(inferred) ELSE autofillCall.fallbackPlatform

\* the number formed by the first 4 characters of the release date of the
\* best result, None when the date is missing or null or no number
BestReleaseYear ==
  IF IsSome(AutofillBest.released) THEN ReleaseYearOf(Get(AutofillBest.released)) ELSE None

\* C14: the year fetchGameAutofill returns for its best result is the
\* number formed by the first 4 characters of the release date when that is
\* a number in 1970..2030, and fallbackYear otherwise; so it is a year of
\* that window or fallbackYear
C14_YearInWindowOrFallback ==
  ReturnedBest =>
    /\ Get(autofillCall.result).year =
         IF InYearWindow(BestReleaseYear) THEN Get(BestReleaseYear)
         ELSE autofillCall.fallbackYear
    /\ \/ Get(autofillCall.result).year \in MinYear..MaxYear
       \/ Get(autofillCall.result).year = autofillCall.fallbackYear

\* a best result released in 1969 was returned with a fallbackYear that is
\* itself outside the window
C14_Witness ==
  /\ ReturnedBest
  /\ IsSome(BestReleaseYear)
  /\ Get(BestReleaseYear) = MinYear - 1
  /\ autofillCall.fallbackYear \notin MinYear..MaxYear
  /\ Get(autofillCall.result).year = autofillCall.fallbackYear

FirstRuleIn(text) ==
  LET Occurs(r) ==
        \E k \in 1..Len(rawgPlatformRules[r].keywords) :
          Includes(text, rawgPlatformRules[r].keywords[k])
  IN IF \A r \in 1..Len(rawgPlatformRules) : ~Occurs(r) THEN None
     ELSE Some(rawgPlatformRules[CHOOSE r \in 1..Len(rawgPlatformRules) :
                                   Occurs(r) /\ \A q \in 1..(r - 1) : ~Occurs(q)].platform)

JoinedLowerCased(platformNames) ==
  [i \in 1..Len(JoinSpace(platformNames)) |-> LowerOf(JoinSpace(platformNames)[i])]

\* C16: the classifier of the form and the one of the library return the
\* platform of the first rule, in the order PS5, PS4, PS3, PS2, PS1,
\* Nintendo (game boy included), PC, with a keyword in the joined
\* lower-cased names, and none without one
C16_FirstRuleOfJoinedNames ==
  probe.fn \in {"inferPlatformFromNames", "inferPlatformFromRawg"} =>
    probe.out = FirstRuleIn(JoinedLowerCased(probe.platformNames))

\* the text holds one of the blocked terms as a substring
HoldsBlockedTerm(text) == \E term \in Range(blockedTerms) : Includes(text, term)

\* C17: isMainGameCandidate is true exactly when the normalized name holds
\* none of the 28 blocked terms and, the normalized query being 3
\* characters or longer, holds the normalized query
C17_CandidateExactlyWhen ==
  /\ Cardinality(Range(blockedTerms)) = 28
  /\ probe.fn = "isMainGameCandidate" =>
       \E name \in {normalizeText(probe.gameName)}, query \in {normalizeText(probe.queryTitle)} :
         probe.out = (~HoldsBlockedTerm(name) /\ (Len(query) >= 3 => Includes(name, query)))
  /\ (probe.fn = "isMainGameCandidate" /\ probe.queryTitle = T_SuperGame) =>
       /\ probe.gameName = T_SuperGameOst => ~probe.out
       /\ probe.gameName = T_SuperGame2 => probe.out

\* "Super Game 2" was accepted for the query "Super Game"
C17_Witness ==
  /\ probe.fn = "isMainGameCandidate"
  /\ probe.gameName = T_SuperGame2
  /\ probe.queryTitle = T_SuperGame
  /\ probe.out

\* the normalized title of a record and how it matches the normalized query
NormalizedTitle(game) == normalizeText(IF IsSome(game.name) THEN Get(game.name) ELSE <<>>)

ExactMatch(game, title) == NormalizedTitle(game) = normalizeText(title)

PrefixOnly(game, title) ==
  ~ExactMatch(game, title) /\ StartsWith(NormalizedTitle(game), normalizeText(title))

SubstringOnly(game, title) ==
  /\ ~StartsWith(NormalizedTitle(game), normalizeText(title))
  /\ Includes(NormalizedTitle(game), normalizeText(title))

NoMatch(game, title) == ~Includes(NormalizedTitle(game), normalizeText(title))

SamePlatformAndImage(a, b) ==
  /\ a.platforms = b.platforms
  /\ a.background_image = b.background_image
  /\ a.background_image_additional = b.background_image_additional

SamePopularity(a, b) ==
  /\ a.ratings_count = b.ratings_count
  /\ a.added = b.added
  /\ a.metacritic = b.metacritic
  /\ a.rating = b.rating

\* C18: of two records with the same platform, image and popularity
\* fields, the one whose normalized title equals the normalized query
\* scores strictly higher than one that only holds the query or only
\* starts with it
C18_ExactAboveSubstringAndPrefix ==
  (/\ probe.fn = "scoreRawgGame"
   /\ SamePlatformAndImage(probe.a, probe.b)
   /\ SamePopularity(probe.a, probe.b)
   /\ ExactMatch(probe.a, probe.title)
   /\ SubstringOnly(probe.b, probe.title) \/ PrefixOnly(probe.b, probe.title)) =>
    probe.scoreA > probe.scoreB

\* an exact match and a substring-only match with the same capped
\* popularity were scored, the exact match higher
C18_Witness ==
  /\ probe.fn = "scoreRawgGame"
  /\ SamePlatformAndImage(probe.a, probe.b)
  /\ SamePopularity(probe.a, probe.b)
  /\ probe.a.ratings_count = Some(9000)
  /\ ExactMatch(probe.a, probe.title)
  /\ SubstringOnly(probe.b, probe.title)
  /\ probe.scoreA > probe.scoreB

\* C19 as stated: of two records with the same platform and image fields,
\* one whose title matches the query, exactly, as a prefix or as a
\* substring, scores higher than one whose title does not match, whatever
\* the popularity fields of the two
C19_AnyMatchAboveMismatch ==
  (/\ probe.fn = "scoreRawgGame"
   /\ SamePlatformAndImage(probe.a, probe.b)
   /\ ~NoMatch(probe.a, probe.title)
   /\ NoMatch(probe.b, probe.title)) =>
    probe.scoreA > probe.scoreB

NonNegativePopularity(game) ==
  \A field \in {game.ratings_count, game.added, game.metacritic, game.rating} :
    IsSome(field) => Get(field) >= 0

\* C19: of two records with the same platform and image fields and no
\* negative popularity field, one whose normalized title equals the
\* normalized query scores higher than one whose title does not match,
\* whatever the popularity fields of the two
C19_ExactAboveMismatch ==
  (/\ probe.fn = "scoreRawgGame"
   /\ SamePlatformAndImage(probe.a, probe.b)
   /\ NonNegativePopularity(probe.a)
   /\ NonNegativePopularity(probe.b)
   /\ ExactMatch(probe.a, probe.title)
   /\ NoMatch(probe.b, probe.title)) =>
    probe.scoreA > probe.scoreB

\* an exact match without popularity fields scored higher than a mismatch
\* whose popularity fields all reach their caps
C19_Witness ==
  /\ probe.fn = "scoreRawgGame"
  /\ SamePlatformAndImage(probe.a, probe.b)
  /\ ExactMatch(probe.a, probe.title)
  /\ NoMatch(probe.b, probe.title)
  /\ probe.a.ratings_count = None
  /\ probe.b.ratings_count = Some(9000)
  /\ probe.b.metacritic = Some(100)
  /\ probe.scoreA > probe.scoreB

\* the settled primary search returned a list without null and the pipeline
\* of fetchRawgCoverOptions ran on it
PrimaryPathRan ==
  /\ pc \in {"done", "wiki"}
  /\ IsSome(rawgResponse)
  /\ ~RawgPipelineRaises(SearchResultsOf(Get(rawgResponse)))

\* the records of the search, in the order of the source
SourceRecords == SearchResultsOf(Get(rawgResponse)).items

\* the score of every record of the search
SourceScores ==
  [i \in 1..Len(SourceRecords) |->
     scoreRawgGame(Get(SourceRecords[i]), rq.title, rq.platform)]

\* record i comes before record j: a higher score, or the same score and
\* an earlier place in the source
ComesBefore(scores, i, j) == scores[i] > scores[j] \/ (scores[i] = scores[j] /\ i < j)

AdmittedAt == {i \in 1..Len(SourceRecords) : IsRawgGameWithCover(Get(SourceRecords[i]), rq.title)}

\* the admitted records that are the first, in that order, with their thumbnail
KeptAmong(scores, admitted) ==
  {i \in admitted :
     \A j \in admitted :
       pickBestRawgImage(Get(SourceRecords[j])) = pickBestRawgImage(Get(SourceRecords[i])) =>
         j = i \/ ComesBefore(scores, i, j)}

\* the kept record with k - 1 kept records before it
KeptOfRank(scores, kept, k) ==
  CHOOSE i \in kept : Cardinality({j \in kept : ComesBefore(scores, j, i)}) = k - 1

\* C20: the candidates of the primary path are the admitted records that
\* are first with their thumbnail, in the order of non-increasing score in
\* which records of equal score keep the order of the source, cut to the
\* limit
C20_ScoreOrderStableFirstKept ==
  PrimaryPathRan =>
    \E scores \in {SourceScores} :
      \E kept \in {KeptAmong(scores, AdmittedAt)} :
        \E ranked \in {[k \in 1..Cardinality(kept) |-> KeptOfRank(scores, kept, k)]} :
          /\ rawgOptions = SliceTo([k \in 1..Len(ranked) |->
                                      ToRawgOption(Get(SourceRecords[ranked[k]]))], rq.limit)
          /\ \A k \in 1..(Len(rawgOptions) - 1) :
               /\ scores[ranked[k]] >= scores[ranked[k + 1]]
               /\ scores[ranked[k]] = scores[ranked[k + 1]] => ranked[k] < ranked[k + 1]

\* two records of equal score were returned in the order of the source
C20_Witness ==
  /\ PrimaryPathRan
  /\ pc = "done"
  /\ Len(result) = 2
  /\ Len(SourceRecords) = 2
  /\ SourceScores[1] = SourceScores[2]
  /\ result[1] = ToRawgOption(Get(SourceRecords[1]))
  /\ result[2] = ToRawgOption(Get(SourceRecords[2]))

\* C21: normalizeText of what normalizeText returned is that text again,
\* and fetchGameAutofill, which sorts with the normalized title, orders the
\* records of a search as fetchRawgCoverOptions orders them with the title
\* itself and the same platform
C21_NormalizeIdempotentSameRanking ==
  /\ probe.fn = "normalizeText" => probe.again = probe.out
  /\ probe.fn = "sort" => probe.autofill = probe.options

\* a text that normalization changes was normalized twice
C21_Witness ==
  /\ probe.fn = "normalizeText"
  /\ probe.value = <<"É", "!", "A">>
  /\ probe.out = <<"e", " ", "a">>
  /\ probe.again = probe.out

\* C22: in a result of fetchGameCoverOptions the ids are pairwise distinct
\* and each id carries the prefix of the source of its candidate
C22_DistinctPrefixedIds ==
  pc = "done" =>
    /\ \A i, j \in 1..Len(result) : result[i].id = result[j].id => i = j
    /\ \A i \in 1..Len(result) :
         result[i].id[1] = IF result[i].source = "rawg" THEN "rawg-" ELSE "wiki-"

\* the record without its two image fields
WithoutImages(game) ==
  [game EXCEPT !.background_image = None, !.background_image_additional = None]

\* C23: every record the filter of fetchRawgCoverOptions admits, each of
\* which has a thumbnail, scores 10 more (4000 units) than the same record
\* without image
C23_AdmittedScoreImageBonus ==
  PrimaryPathRan =>
    \A i \in AdmittedAt :
      scoreRawgGame(Get(SourceRecords[i]), rq.title, rq.platform) =
        scoreRawgGame(WithoutImages(Get(SourceRecords[i])), rq.title, rq.platform) + 4000

\* ------------------------------------------------------------------------
\* The collection
\* ------------------------------------------------------------------------
\* the ids the components hold anywhere
HeldIds ==
  {games[i].id : i \in 1..Len(games)}
    \cup {editingGame[i].id : i \in 1..Len(editingGame)}
    \cup {pendingDeleteGame[i].id : i \in 1..Len(pendingDeleteGame)}
    \cup {pendingSubmit[i].id : i \in 1..Len(pendingSubmit)}

\* the values fetchGameAutofill can have returned to the pending handleCreateGame
PendingAutofills(task) ==
  IF IsSome(task.autofill) THEN {Get(task.autofill)}
  ELSE {Get(o.result) : o \in {q \in GameAutofillOutcomes(Trim(task.game.title),
                                                           task.game.platform,
                                                           task.game.year) : ~q.raised}}

SameButCover(stored, game) ==
  /\ stored.title = game.title
  /\ stored.platform = game.platform
  /\ stored.year = game.year
  /\ stored.completed = game.completed
  /\ stored.rating = game.rating

GameIds(collection) == {collection[i].id : i \in 1..Len(collection)}

DistinctIds(collection) ==
  \A i, j \in 1..Len(collection) : collection[i].id = collection[j].id => i = j

\* the collection without its k-th record
WithoutRecord(collection, k) == SubSeq(collection, 1, k - 1) \o SubSeq(collection, k + 1, Len(collection))

\* the call of handleUpdateGame that awaits its cover, None when there is none
PendingUpdate == SelectSeq(pendingSubmit, LAMBDA task : task.kind = "update")

\* C28: whatever handler or settled lookup takes the step, the ids of the
\* collection are pairwise distinct before and after it; a step that
\* shortens the collection is the confirmed delete and removes the one record
\* with the id of the record to delete, the others staying in place; a step
\* that changes the collection at equal length changes one record, which
\* keeps its id, the id of the update; and the step that ends a pending
\* update whose id no record has leaves the collection as it is
C28_DeleteAndUpdateTouchOneId ==
  [][/\ DistinctIds(games)
     /\ DistinctIds(games')
     /\ Len(games') < Len(games) =>
          /\ IsSome(pendingDeleteGame)
          /\ \E k \in 1..Len(games) :
                /\ games[k].id = Get(pendingDeleteGame).id
                /\ games' = WithoutRecord(games, k)
     /\ (Len(games') = Len(games) /\ games' # games) =>
          \E k \in 1..Len(games) :
            /\ \A i \in 1..Len(games) : i # k => games'[i] = games[i]
            /\ games'[k].id = games[k].id
            /\ games[k].id = IF IsSome(PendingUpdate) THEN Get(PendingUpdate).id
                              ELSE Get(editingGame).id
     /\ (IsSome(PendingUpdate) /\ pendingSubmit' = None
           /\ Get(PendingUpdate).id \notin GameIds(games)) =>
          games' = games]_vars

\* the record of a pending update was deleted while its cover is looked up,
\* and another record is left
C28_Witness ==
  /\ IsSome(PendingUpdate)
  /\ Get(PendingUpdate).id \notin GameIds(games)
  /\ Len(games) = 1
  /\ pendingDeleteGame = None

\* ------------------------------------------------------------------------
\* The form on an existing record
\* ------------------------------------------------------------------------
\* the draft holds the fields of the record
DraftIsRecord(draft, game) ==
  /\ draft.title = game.title
  /\ draft.platform = game.platform
  /\ draft.year = game.year
  /\ draft.coverUrl = game.coverUrl

\* the form was opened on a record and the user has changed neither title
\* nor platform nor picked a suggestion: a title change to the record's own
\* title and a platform change under it show the suggestions, which only a
\* pick hides again
OpenedAndUntouched ==
  /\ IsSome(editingGame)
  /\ mounted = "mounted"
  /\ titleQuery = Get(editingGame).title
  /\ ~showSuggestions
  /\ lockedSuggestionQueryRef = None
  /\ pickHistory.phase = "none"

\* C25: while the form opened on a record is untouched, no run of the
\* debounce effect has called fetchGameCoverOptions and the draft has the
\* record's title, platform, year and cover
C25_UntouchedDraftIsRecord ==
  OpenedAndUntouched =>
    /\ \A i \in 1..Len(effects) : effects[i].call = "none"
    /\ DraftIsRecord(formData, Get(editingGame))

\* the runs of the debounce effect that are not cancelled and whose timer is
\* pending or whose call is in flight
OutstandingQueries ==
  {i \in 1..Len(effects) :
     /\ ~effects[i].cancelled
     /\ effects[i].timer = "pending" \/ effects[i].call = "inflight"}

\* C27: in the mounted form isLoadingSuggestions is true exactly when one
\* query is outstanding, at most one query is outstanding, and the flag is
\* false when the trimmed title has fewer than 2 characters or is the locked
\* title
C27_LoadingIffOneOutstanding ==
  mounted = "mounted" =>
    /\ isLoadingSuggestions <=> Cardinality(OutstandingQueries) = 1
    /\ Cardinality(OutstandingQueries) <= 1
    /\ (\/ Len(Trim(titleQuery)) < MinQueryLength
        \/ IsLockedQuery(lockedSuggestionQueryRef, Trim(titleQuery))) => ~isLoadingSuggestions

\* ------------------------------------------------------------------------
\* The driver left to itself
\* ------------------------------------------------------------------------
\* C26: with no input of the user and a source that answers every search
\* with the same response, from some moment on no run of the debounce
\* effect has a timer pending or a call in flight: the calls of
\* fetchGameCoverOptions are finitely many
C26_DriverQuiesces == <>[](mounted = "mounted" /\ OutstandingQueries = {})

\* the top candidate of the first call changed the platform of the draft, a
\* second call was made under the new platform, and nothing is outstanding
C26_Witness ==
  /\ IsSome(sourceAnswer)
  /\ Len(effects) = 2
  /\ effects[1].call = "resolved"
  /\ effects[2].call = "resolved"
  /\ effects[2].platform # effects[1].platform
  /\ formData.platform = effects[2].platform
  /\ OutstandingQueries = {}

====
